---------------------------- MODULE Spec2Model ----------------------------
(***************************************************************************)
(* Content extraction of html2md (extractor.go).                           *)
(*                                                                         *)
(* ExtractContent(rawHTML) parses a document, removes the elements that    *)
(* can never be content, looks for the body element, scores the container  *)
(* elements below it and renders the best one.                             *)
(*                                                                         *)
(* Strings are sequences of bytes, each written as a one-character string  *)
(* (a byte outside ASCII as its two hexadecimal digits), so that           *)
(* lower-casing, trimming, substring search and len are computed.          *)
(* A document in memory is a sequence of nodes; a node is referred to by   *)
(* its index (the *html.Node pointer), 0 is the nil pointer.  The children *)
(* of a node are the nodes whose Parent is that node, in creation order:   *)
(* the parser appends children left to right and the program never         *)
(* inserts or moves a node, it only detaches nodes.                        *)
(*                                                                         *)
(* Scores are float64 in the program.  The model keeps them as integers    *)
(* in hundredths (score * 100): every component is a multiple of 1/100.    *)
(***************************************************************************)
EXTENDS Integers, Sequences, FiniteSets, TLC

VARIABLES rawHTML, doc, body, candidate, result, pc,
          toRemove, index, bestNode, bestScore, walk

\* the variables of the closures of removeUnwantedElements and
\* findBestCandidate: toRemove, the place of the loop over it, bestNode,
\* bestScore, and the nodes the calls of walk still have to visit.  They
\* change in the specifications that follow the traversals node by node.
locals == <<toRemove, index, bestNode, bestScore, walk>>

vars == <<rawHTML, doc, body, candidate, result, pc, locals>>

---------------------------------------------------------------------------
(* Characters and strings                                                  *)

Nil == 0

UpperChars == <<"A","B","C","D","E","F","G","H","I","J","K","L","M",
                "N","O","P","Q","R","S","T","U","V","W","X","Y","Z">>
LowerChars == <<"a","b","c","d","e","f","g","h","i","j","k","l","m",
                "n","o","p","q","r","s","t","u","v","w","x","y","z">>

ToLowerChar(c) ==
    IF \E i \in 1..Len(UpperChars) : UpperChars[i] = c
    THEN LowerChars[CHOOSE i \in 1..Len(UpperChars) : UpperChars[i] = c]
    ELSE c

\* strings.ToLower
ToLower(s) == [i \in 1..Len(s) |-> ToLowerChar(s[i])]

\* strings.Contains
Contains(s, sub) ==
    \E i \in 0..(Len(s) - Len(sub)) : SubSeq(s, i + 1, i + Len(sub)) = sub

\* the least number of a non-empty set of numbers
MinOf(S) == CHOOSE x \in S : \A y \in S : x <= y

\* strings.Index: where sub occurs in s
Occurrences(s, sub) ==
    {i \in 1..(Len(s) - Len(sub) + 1) : SubSeq(s, i, i + Len(sub) - 1) = sub}

\* strings.ReplaceAll, for a non-empty old: from one occurrence to the
\* next one after it
RECURSIVE ReplaceAll(_, _, _)
ReplaceAll(s, old, new) ==
    IF Occurrences(s, old) = {} THEN s
    ELSE LET first == MinOf(Occurrences(s, old))
         IN  SubSeq(s, 1, first - 1) \o new
                 \o ReplaceAll(SubSeq(s, first + Len(old), Len(s)), old, new)

\* strings.Count, for a non-empty substr: non-overlapping occurrences
RECURSIVE Count(_, _)
Count(s, substr) ==
    IF Occurrences(s, substr) = {} THEN 0
    ELSE LET first == MinOf(Occurrences(s, substr))
         IN  1 + Count(SubSeq(s, first + Len(substr), Len(s)), substr)

\* unicode.IsSpace on the characters of the model
IsSpace(c) == c \in {" ", "\t", "\n"}

NonSpace(s) == {i \in 1..Len(s) : ~IsSpace(s[i])}

TrimLeft(s) ==
    IF NonSpace(s) = {} THEN <<>> ELSE SubSeq(s, MinOf(NonSpace(s)), Len(s))

TrimRight(s) ==
    IF NonSpace(s) = {} THEN <<>>
    ELSE SubSeq(s, 1, CHOOSE x \in NonSpace(s) : \A y \in NonSpace(s) : y <= x)

\* strings.TrimSpace
TrimSpace(s) == TrimRight(TrimLeft(s))

Min2(x, y) == IF x < y THEN x ELSE y

RECURSIVE SortedSeq(_)
SortedSeq(S) ==
    IF S = {} THEN <<>>
    ELSE LET m == CHOOSE x \in S : \A y \in S : x <= y
         IN  <<m>> \o SortedSeq(S \ {m})

---------------------------------------------------------------------------
(* Names used by the program                                               *)

s_html     == <<"h","t","m","l">>
s_head     == <<"h","e","a","d">>
s_body     == <<"b","o","d","y">>
s_script   == <<"s","c","r","i","p","t">>
s_style    == <<"s","t","y","l","e">>
s_noscript == <<"n","o","s","c","r","i","p","t">>
s_iframe   == <<"i","f","r","a","m","e">>
s_svg      == <<"s","v","g">>
s_article  == <<"a","r","t","i","c","l","e">>
s_main     == <<"m","a","i","n">>
s_section  == <<"s","e","c","t","i","o","n">>
s_div      == <<"d","i","v">>
s_p        == <<"p">>
s_a        == <<"a">>
s_span     == <<"s","p","a","n">>
s_object   == <<"o","b","j","e","c","t">>
s_header   == <<"h","e","a","d","e","r">>
s_footer   == <<"f","o","o","t","e","r">>
s_nav      == <<"n","a","v">>
s_aside    == <<"a","s","i","d","e">>
s_form     == <<"f","o","r","m">>
s_hidden   == <<"h","i","d","d","e","n">>
s_class    == <<"c","l","a","s","s">>
s_id       == <<"i","d">>
s_lt_body  == <<"<","b","o","d","y">>
s_comma    == <<",">>
\* the three bytes of U+3001, the ideographic comma
s_ideographic_comma == <<"E3","80","81">>
s_display_none == <<"d","i","s","p","l","a","y",":","n","o","n","e">>

\* unwantedTags as if script were missing from the table
unwantedTags_NoScript == {s_style, s_noscript, s_iframe, s_svg}

\* var unwantedTags
unwantedTags == {s_script, s_style, s_noscript, s_iframe, s_svg}

\* candidateTags as if main were missing from the table
candidateTags_NoMain == {s_article, s_section, s_div}

\* var candidateTags
candidateTags == {s_article, s_main, s_section, s_div}

\* var tagScores: the tags of the table and the score of each
tagScoreKeys ==
    {s_article, s_main, s_section, s_div, s_p,
     s_header, s_footer, s_nav, s_aside, s_form}

\* tagScores as if the chrome tags had the score of article and main
tagScores_ChromeUnsigned(tag) ==
    CASE tag \in {s_article, s_main} -> 25
      [] tag = s_section -> 10
      [] tag = s_div -> 5
      [] tag = s_p -> 3
      [] tag \in {s_header, s_footer, s_nav, s_aside, s_form} -> 25

\* tagScores as if a div had a score below the first value of bestScore
tagScores_DivBelowAll(tag) ==
    CASE tag \in {s_article, s_main} -> 25
      [] tag = s_section -> 10
      [] tag = s_div -> 0 - 2000
      [] tag = s_p -> 3
      [] tag \in {s_header, s_footer, s_nav, s_aside, s_form} -> 0 - 25

tagScores(tag) ==
    CASE tag \in {s_article, s_main} -> 25
      [] tag = s_section -> 10
      [] tag = s_div -> 5
      [] tag = s_p -> 3
      [] tag \in {s_header, s_footer, s_nav, s_aside, s_form} -> 0 - 25

\* var positivePattern: the alternatives of the (?i) pattern
positiveWords ==
    { <<"a","r","t","i","c","l","e">>, <<"b","o","d","y">>,
      <<"c","o","n","t","e","n","t">>, <<"e","n","t","r","y">>,
      <<"m","a","i","n">>, <<"p","a","g","e">>, <<"p","o","s","t">>,
      <<"t","e","x","t">>, <<"b","l","o","g">>, <<"s","t","o","r","y">>,
      <<"h","e","n","t","r","y">> }

\* var negativePattern: the alternatives of the (?i) pattern
negativeWords ==
    { <<"c","o","m","m","e","n","t">>, <<"m","e","t","a">>,
      <<"f","o","o","t","e","r">>, <<"f","o","o","t","n","o","t","e">>,
      <<"s","i","d","e","b","a","r">>, <<"w","i","d","g","e","t">>,
      <<"b","a","n","n","e","r">>, <<"a","d","v","e","r","t","i","s">>,
      <<"a","d","-">>, <<"a","d","_">>, <<"p","o","p","u","p">>,
      <<"s","o","c","i","a","l">>, <<"s","h","a","r","e">>,
      <<"r","e","l","a","t","e","d">>,
      <<"r","e","c","o","m","m","e","n","d">>, <<"n","a","v">>,
      <<"m","e","n","u">>, <<"b","r","e","a","d","c","r","u","m","b">>,
      <<"h","e","a","d","e","r">> }

\* positivePattern.MatchString / negativePattern.MatchString
positivePattern(s) == \E w \in positiveWords : Contains(ToLower(s), w)
negativePattern(s) == \E w \in negativeWords : Contains(ToLower(s), w)

---------------------------------------------------------------------------
(* The tree: html.Node                                                     *)

ElementNode  == "ElementNode"
TextNode     == "TextNode"
DocumentNode == "DocumentNode"

Attribute(k, v) == [Key |-> k, Val |-> v]

NewNode(type, data, attr, parent) ==
    [Type |-> type, Data |-> data, Attr |-> attr, Parent |-> parent]

\* the nodes from n.FirstChild along NextSibling
Children(t, n) == SortedSeq({i \in 1..Len(t) : t[i].Parent = n})

\* RemoveChild as if the siblings after the node went with it
RemoveChild_WithFollowing(t, n) ==
    [m \in 1..Len(t) |->
        IF m = n \/ (t[m].Parent = t[n].Parent /\ m > n)
        THEN [t[m] EXCEPT !.Parent = Nil]
        ELSE t[m]]

\* RemoveChild as if the node were never detached
RemoveChild_Kept(t, n) == t

\* (*html.Node).RemoveChild: the child is detached, it keeps its own subtree
RemoveChild(t, n) == [t EXCEPT ![n].Parent = Nil]

\* the nodes a traversal from n reaches: n and its descendants
RECURSIVE Subtree(_, _)
Subtree(t, n) ==
    {n} \cup UNION {Subtree(t, c) : c \in {i \in 1..Len(t) : t[i].Parent = n}}


---------------------------------------------------------------------------
(* removeUnwantedElements                                                  *)

\* removeAttr as if hidden counted only with a value
removeAttr_HiddenValue(attr) ==
    \/ attr.Key = s_hidden /\ attr.Val # <<>>
    \/ /\ attr.Key = s_style
       /\ Contains(ToLower(ReplaceAll(attr.Val, <<" ">>, <<>>)),
                   s_display_none)

\* the test of one attribute in the loop over node.Attr
removeAttr(attr) ==
    \/ attr.Key = s_hidden
    \/ /\ attr.Key = s_style
       /\ Contains(ToLower(ReplaceAll(attr.Val, <<" ">>, <<>>)),
                   s_display_none)

\* the closure walk of removeUnwantedElements: the nodes appended to
\* toRemove, in the order of the traversal.  A collected node is not entered.
RECURSIVE removeWalk(_, _)
removeWalk(t, n) ==
    LET node == t[n]
        RECURSIVE over(_)
        over(cs) == IF cs = <<>> THEN <<>>
                    ELSE removeWalk(t, Head(cs)) \o over(Tail(cs))
    IN  IF /\ node.Type = ElementNode
           /\ \/ node.Data \in unwantedTags
              \/ \E i \in 1..Len(node.Attr) : removeAttr(node.Attr[i])
        THEN <<n>>
        ELSE over(Children(t, n))

\* the loop over toRemove
RECURSIVE removeCollected(_, _)
removeCollected(t, collected) ==
    IF collected = <<>> THEN t
    ELSE LET node == Head(collected)
         IN  removeCollected(
                 IF t[node].Parent # Nil THEN RemoveChild(t, node) ELSE t,
                 Tail(collected))

\* removeUnwantedElements as if each node were detached during the
\* traversal: the loop over the siblings of a detached node ends there,
\* its NextSibling being nil
RECURSIVE removeUnwantedElements_InPlace(_, _)
removeUnwantedElements_InPlace(t, n) ==
    LET RECURSIVE over(_, _)
        over(cs, u) ==
            IF cs = <<>> THEN u
            ELSE LET v == removeUnwantedElements_InPlace(u, Head(cs))
                 IN  IF v[Head(cs)].Parent = Nil THEN v
                     ELSE over(Tail(cs), v)
    IN  IF removeWalk(t, n) = <<n>>
        THEN IF t[n].Parent # Nil THEN RemoveChild(t, n) ELSE t
        ELSE over(Children(t, n), t)

removeUnwantedElements(t, n) == removeCollected(t, removeWalk(t, n))

---------------------------------------------------------------------------
(* findElement                                                             *)

\* findElement as if it looked at every node there is, detached or not
findElement_Detached(t, n, tag) ==
    IF \E m \in 1..Len(t) : t[m].Type = ElementNode /\ t[m].Data = tag
    THEN CHOOSE m \in 1..Len(t) :
             /\ t[m].Type = ElementNode /\ t[m].Data = tag
             /\ \A k \in 1..(m - 1) :
                   ~(t[k].Type = ElementNode /\ t[k].Data = tag)
    ELSE Nil

RECURSIVE findElement(_, _, _)
findElement(t, n, tag) ==
    LET RECURSIVE over(_)
        over(cs) ==
            IF cs = <<>> THEN Nil
            ELSE LET found == findElement(t, Head(cs), tag)
                 IN  IF found # Nil THEN found ELSE over(Tail(cs))
    IN  IF t[n].Type = ElementNode /\ t[n].Data = tag
        THEN n
        ELSE over(Children(t, n))

---------------------------------------------------------------------------
(* Text metrics                                                            *)

getAttr(node, key) ==
    IF \E i \in 1..Len(node.Attr) : node.Attr[i].Key = key
    THEN LET first == CHOOSE i \in 1..Len(node.Attr) :
                          /\ node.Attr[i].Key = key
                          /\ \A j \in 1..(i - 1) : node.Attr[j].Key # key
         IN  node.Attr[first].Val
    ELSE <<>>

RECURSIVE getTextContent(_, _)
getTextContent(t, n) ==
    LET RECURSIVE over(_)
        over(cs) == IF cs = <<>> THEN <<>>
                    ELSE getTextContent(t, Head(cs)) \o over(Tail(cs))
    IN  (IF t[n].Type = TextNode THEN t[n].Data ELSE <<>>)
            \o over(Children(t, n))

getTextLength(t, n) == Len(TrimSpace(getTextContent(t, n)))

\* getLinkTextLength as if the text of a link were not trimmed
RECURSIVE getLinkTextLength_Untrimmed(_, _)
getLinkTextLength_Untrimmed(t, n) ==
    LET RECURSIVE over(_)
        over(cs) == IF cs = <<>> THEN 0
                    ELSE getLinkTextLength_Untrimmed(t, Head(cs)) + over(Tail(cs))
    IN  IF t[n].Type = ElementNode /\ t[n].Data = s_a
        THEN Len(getTextContent(t, n))
        ELSE over(Children(t, n))

\* getLinkTextLength as if the traversal went on below a link
RECURSIVE getLinkTextLength_Descending(_, _)
getLinkTextLength_Descending(t, n) ==
    LET RECURSIVE over(_)
        over(cs) == IF cs = <<>> THEN 0
                    ELSE getLinkTextLength_Descending(t, Head(cs)) + over(Tail(cs))
    IN  (IF t[n].Type = ElementNode /\ t[n].Data = s_a
         THEN getTextLength(t, n) ELSE 0)
            + over(Children(t, n))

RECURSIVE getLinkTextLength(_, _)
getLinkTextLength(t, n) ==
    LET RECURSIVE over(_)
        over(cs) == IF cs = <<>> THEN 0
                    ELSE getLinkTextLength(t, Head(cs)) + over(Tail(cs))
    IN  IF t[n].Type = ElementNode /\ t[n].Data = s_a
        THEN getTextLength(t, n)
        ELSE over(Children(t, n))

\* countElements as if only the node and its children were looked at
countElements_Shallow(t, n, tag) ==
    Cardinality({m \in {n} \cup {i \in 1..Len(t) : t[i].Parent = n} :
                    t[m].Type = ElementNode /\ t[m].Data = tag})

RECURSIVE countElements(_, _, _)
countElements(t, n, tag) ==
    LET RECURSIVE over(_)
        over(cs) == IF cs = <<>> THEN 0
                    ELSE countElements(t, Head(cs), tag) + over(Tail(cs))
    IN  (IF t[n].Type = ElementNode /\ t[n].Data = tag THEN 1 ELSE 0)
            + over(Children(t, n))

---------------------------------------------------------------------------
(* scoreNode, in hundredths                                                *)

Scale == 100

\* scoreNode as if a match of the negative pattern took nothing off
scoreNode_NegativeIgnored(t, n) ==
    LET node        == t[n]
        base        == IF node.Data \in tagScoreKeys
                       THEN tagScores(node.Data) ELSE 0
        combined    == getAttr(node, s_class) \o <<" ">> \o getAttr(node, s_id)
        positive    == IF positivePattern(combined) THEN 25 ELSE 0
        negative    == 0
        text        == getTextContent(t, n)
        textLen     == Len(TrimSpace(text))
        linkTextLen == getLinkTextLength(t, n)
        \* density * textLen / 100, times Scale
        density     == IF textLen > 0
                       THEN ((textLen - linkTextLen) * textLen) \div textLen
                       ELSE 0
        pCount      == countElements(t, n, s_p)
        punctuationCount == Min2(Count(text, s_comma) + Count(text, s_ideographic_comma), 10)
    IN  Scale * base + Scale * positive - Scale * negative
            + density + Scale * pCount * 3 + Scale * punctuationCount

\* scoreNode as if class and id were joined without the blank between them
scoreNode_Joined(t, n) ==
    LET node        == t[n]
        base        == IF node.Data \in tagScoreKeys
                       THEN tagScores(node.Data) ELSE 0
        combined    == getAttr(node, s_class) \o getAttr(node, s_id)
        positive    == IF positivePattern(combined) THEN 25 ELSE 0
        negative    == IF negativePattern(combined) THEN 25 ELSE 0
        text        == getTextContent(t, n)
        textLen     == Len(TrimSpace(text))
        linkTextLen == getLinkTextLength(t, n)
        density     == IF textLen > 0
                       THEN ((textLen - linkTextLen) * textLen) \div textLen
                       ELSE 0
        pCount      == countElements(t, n, s_p)
        punctuationCount == Min2(Count(text, s_comma) + Count(text, s_ideographic_comma), 10)
    IN  Scale * base + Scale * positive - Scale * negative
            + density + Scale * pCount * 3 + Scale * punctuationCount

scoreNode(t, n) ==
    LET node        == t[n]
        base        == IF node.Data \in tagScoreKeys
                       THEN tagScores(node.Data) ELSE 0
        combined    == getAttr(node, s_class) \o <<" ">> \o getAttr(node, s_id)
        positive    == IF positivePattern(combined) THEN 25 ELSE 0
        negative    == IF negativePattern(combined) THEN 25 ELSE 0
        text        == getTextContent(t, n)
        textLen     == Len(TrimSpace(text))
        linkTextLen == getLinkTextLength(t, n)
        \* density * textLen / 100, times Scale
        density     == IF textLen > 0
                       THEN ((textLen - linkTextLen) * textLen) \div textLen
                       ELSE 0
        pCount      == countElements(t, n, s_p)
        punctuationCount == Min2(Count(text, s_comma) + Count(text, s_ideographic_comma), 10)
    IN  Scale * base + Scale * positive - Scale * negative
            + density + Scale * pCount * 3 + Scale * punctuationCount

---------------------------------------------------------------------------
(* findBestCandidate                                                       *)

\* var bestScore float64 = -1000
InitialBestScore == 0 - 1000

\* bestWalk as if a candidate replaced the best one on an equal score
RECURSIVE bestWalk_OrEqual(_, _, _)
bestWalk_OrEqual(t, n, best) ==
    LET RECURSIVE over(_, _)
        over(cs, b) == IF cs = <<>> THEN b
                       ELSE over(Tail(cs), bestWalk_OrEqual(t, Head(cs), b))
        score == scoreNode(t, n)
        here  == IF /\ t[n].Type = ElementNode
                    /\ t[n].Data \in candidateTags
                    /\ score >= best.bestScore
                 THEN [bestNode |-> n, bestScore |-> score]
                 ELSE best
    IN  over(Children(t, n), here)

\* the closure walk of findBestCandidate: best is the pair bestNode,
\* bestScore before the node is visited, the value is the pair after its
\* whole subtree has been visited
RECURSIVE bestWalk(_, _, _)
bestWalk(t, n, best) ==
    LET RECURSIVE over(_, _)
        over(cs, b) == IF cs = <<>> THEN b
                       ELSE over(Tail(cs), bestWalk(t, Head(cs), b))
        score == scoreNode(t, n)
        here  == IF /\ t[n].Type = ElementNode
                    /\ t[n].Data \in candidateTags
                    /\ score > best.bestScore
                 THEN [bestNode |-> n, bestScore |-> score]
                 ELSE best
    IN  over(Children(t, n), here)

\* findBestCandidate as if a best score of 0 fell back to the body too
findBestCandidate_ZeroFallsBack(t, b) ==
    LET best == bestWalk(t, b, [bestNode |-> Nil,
                                bestScore |-> Scale * InitialBestScore])
    IN  IF best.bestNode = Nil \/ best.bestScore <= 0
        THEN b
        ELSE best.bestNode

\* findBestCandidate as if it returned nil when nothing was found
findBestCandidate_NoFallback(t, b) ==
    LET best == bestWalk(t, b, [bestNode |-> Nil,
                                bestScore |-> Scale * InitialBestScore])
    IN  IF best.bestNode = Nil \/ best.bestScore < 0
        THEN Nil
        ELSE best.bestNode

findBestCandidate(t, b) ==
    LET best == bestWalk(t, b, [bestNode |-> Nil,
                                bestScore |-> Scale * InitialBestScore])
    IN  IF best.bestNode = Nil \/ best.bestScore < 0
        THEN b
        ELSE best.bestNode

---------------------------------------------------------------------------
(* The input string, html.Parse and html.Render                            *)
(*                                                                         *)
(* rawHTML is kept as the sequence of its lexical tokens (start tags with  *)
(* their attributes, end tags, text); RawString is the string itself.      *)

StartTag == "StartTag"
EndTag   == "EndTag"
Text     == "Text"

Token(tok, data, attr) == [Tok |-> tok, Data |-> data, Attr |-> attr]

RECURSIVE AttrString(_)
AttrString(attr) ==
    IF attr = <<>> THEN <<>>
    ELSE LET at == Head(attr)
         IN  <<" ">> \o at.Key
                 \o (IF at.Val = <<>> THEN <<>>
                     ELSE <<"=", "\"">> \o at.Val \o <<"\"">>)
                 \o AttrString(Tail(attr))

TokenString(tk) ==
    CASE tk.Tok = StartTag -> <<"<">> \o tk.Data \o AttrString(tk.Attr) \o <<">">>
      [] tk.Tok = EndTag   -> <<"<", "/">> \o tk.Data \o <<">">>
      [] tk.Tok = Text     -> tk.Data

RECURSIVE RawString(_)
RawString(tokens) ==
    IF tokens = <<>> THEN <<>>
    ELSE TokenString(Head(tokens)) \o RawString(Tail(tokens))

\* the elements whose content the parser reads as text, and foreign content
rawTextTags == {s_script, s_style, s_noscript, s_iframe, s_svg}

\* the attributes of a second start tag that the element does not have yet
MergeAttr(old, new) ==
    old \o SelectSeq(new, LAMBDA at :
                 \A i \in 1..Len(old) : old[i].Key # at.Key)

LowerKeys(attr) ==
    [i \in 1..Len(attr) |-> Attribute(ToLower(attr[i].Key), attr[i].Val)]

\* the nodes html.Parse always builds: the document, html, head and body
DocumentId == 1
HtmlId     == 2
HeadId     == 3
BodyId     == 4

ParseStart ==
    [t     |-> << NewNode(DocumentNode, <<>>, <<>>, Nil),
                  NewNode(ElementNode, s_html, <<>>, DocumentId),
                  NewNode(ElementNode, s_head, <<>>, HtmlId),
                  NewNode(ElementNode, s_body, <<>>, HtmlId) >>,
     stack |-> <<>>,
     inBody |-> FALSE]

\* one token of the tree construction.  stack holds the open elements
\* below head or body; inBody says whether the body has been opened, by its
\* own start tag or by the first token that cannot stay in the head.
ParseToken(st, tk) ==
    LET name  == ToLower(tk.Data)
        top   == IF st.stack # <<>> THEN st.stack[Len(st.stack)]
                 ELSE IF st.inBody THEN BodyId ELSE HeadId
        inHead == ~st.inBody /\ st.stack = <<>> /\ tk.Tok = StartTag
                     /\ name \in {s_script, s_style, s_noscript}
        opens  == st.stack = <<>> /\ ~inHead
        where  == IF st.stack = <<>> /\ ~inHead THEN BodyId ELSE top
    IN  CASE tk.Tok = StartTag /\ name = s_html ->
                 [st EXCEPT !.t[HtmlId].Attr =
                               MergeAttr(@, LowerKeys(tk.Attr))]
          [] tk.Tok = StartTag /\ name = s_body ->
                 [st EXCEPT !.t[BodyId].Attr =
                               MergeAttr(@, LowerKeys(tk.Attr)),
                            !.inBody = TRUE]
          [] tk.Tok = EndTag /\ name \in {s_html, s_body} -> st
          [] tk.Tok = StartTag /\ name \notin {s_html, s_body} ->
                 [t      |-> Append(st.t, NewNode(ElementNode, name,
                                                  LowerKeys(tk.Attr), where)),
                  stack  |-> Append(st.stack, Len(st.t) + 1),
                  inBody |-> st.inBody \/ opens]
          [] tk.Tok = EndTag /\ name \notin {s_html, s_body} ->
                 IF st.stack # <<>> /\ st.t[top].Data = name
                 THEN [st EXCEPT !.stack = SubSeq(@, 1, Len(@) - 1)]
                 ELSE st
          [] tk.Tok = Text ->
                 [t      |-> Append(st.t, NewNode(TextNode, tk.Data, <<>>,
                                                  where)),
                  stack  |-> st.stack,
                  inBody |-> st.inBody \/ opens]

RECURSIVE ParseTokens(_, _)
ParseTokens(st, tokens) ==
    IF tokens = <<>> THEN st
    ELSE ParseTokens(ParseToken(st, Head(tokens)), Tail(tokens))

\* html.Parse(strings.NewReader(rawHTML)); reading a string cannot fail
Parse(tokens) == ParseTokens(ParseStart, tokens).t

\* renderNode: html.Render of the subtree of n
RECURSIVE renderNode(_, _)
renderNode(t, n) ==
    LET RECURSIVE over(_)
        over(cs) == IF cs = <<>> THEN <<>>
                    ELSE renderNode(t, Head(cs)) \o over(Tail(cs))
        inner == over(Children(t, n))
    IN  CASE t[n].Type = ElementNode ->
                 <<Token(StartTag, t[n].Data, t[n].Attr)>> \o inner
                     \o <<Token(EndTag, t[n].Data, <<>>)>>
          [] t[n].Type = TextNode -> <<Token(Text, t[n].Data, <<>>)>>
          [] t[n].Type = DocumentNode -> inner

---------------------------------------------------------------------------
(* ExtractContent                                                          *)

\* if !strings.Contains(strings.ToLower(rawHTML), "<body") return rawHTML
SkipExtraction ==
    /\ pc = "start"
    /\ ~Contains(ToLower(RawString(rawHTML)), s_lt_body)
    /\ result' = rawHTML
    /\ pc' = "done"
    /\ UNCHANGED <<locals, rawHTML, doc, body, candidate>>

\* doc, err := html.Parse(strings.NewReader(rawHTML))
ParseHTML ==
    /\ pc = "start"
    /\ Contains(ToLower(RawString(rawHTML)), s_lt_body)
    /\ doc' = Parse(rawHTML)
    /\ pc' = "parsed"
    /\ UNCHANGED <<locals, rawHTML, body, candidate, result>>

\* removeUnwantedElements(doc)
RemoveUnwanted ==
    /\ pc = "parsed"
    /\ doc' = removeUnwantedElements(doc, DocumentId)
    /\ pc' = "removed"
    /\ UNCHANGED <<locals, rawHTML, body, candidate, result>>

\* body := findElement(doc, "body"); if body == nil return rawHTML
FindBody ==
    /\ pc = "removed"
    /\ body' = findElement(doc, DocumentId, s_body)
    /\ IF body' = Nil
       THEN result' = rawHTML /\ pc' = "done"
       ELSE result' = result /\ pc' = "body"
    /\ UNCHANGED <<locals, rawHTML, doc, candidate>>

\* FindBest as if the selected node were taken out of the tree
FindBest_Detaching ==
    /\ pc = "body"
    /\ candidate' = findBestCandidate(doc, body)
    /\ doc' = IF candidate' \notin {Nil, body}
              THEN RemoveChild(doc, candidate') ELSE doc
    /\ IF candidate' = Nil
       THEN result' = rawHTML /\ pc' = "done"
       ELSE result' = result /\ pc' = "candidate"
    /\ UNCHANGED <<locals, rawHTML, body>>

\* candidate := findBestCandidate(body); if candidate == nil return rawHTML
FindBest ==
    /\ pc = "body"
    /\ candidate' = findBestCandidate(doc, body)
    /\ IF candidate' = Nil
       THEN result' = rawHTML /\ pc' = "done"
       ELSE result' = result /\ pc' = "candidate"
    /\ UNCHANGED <<locals, rawHTML, doc, body>>

\* return renderNode(candidate)
RenderCandidate ==
    /\ pc = "candidate"
    /\ result' = renderNode(doc, candidate)
    /\ pc' = "done"
    /\ UNCHANGED <<locals, rawHTML, doc, body, candidate>>

Next ==
    \/ SkipExtraction
    \/ ParseHTML
    \/ RemoveUnwanted
    \/ FindBody
    \/ FindBest
    \/ RenderCandidate

---------------------------------------------------------------------------
(* The inputs                                                              *)
(*                                                                         *)
(* An input is written from a forest of elements: element i has a parent   *)
(* (0 for the top level), a tag, attributes and possibly a text that is    *)
(* its first child.  The elements are numbered in document order.  Only    *)
(* forests that html.Parse reads back as they are written are drawn: the   *)
(* parser reads the content of script, style, noscript and iframe as text  *)
(* and changes namespace in svg, it closes an open p at the start tag of a *)
(* block element, and an open a at the start tag of another a unless an    *)
(* object element was opened in between.                                   *)

Element(parent, data, attr, text) ==
    [Parent |-> parent, Data |-> data, Attr |-> attr, Text |-> text]

Label(data, attr, text) == [Data |-> data, Attr |-> attr, Text |-> text]

blockTags ==
    {s_div, s_article, s_main, s_section, s_p,
     s_header, s_footer, s_nav, s_aside, s_form}

\* element i and its ancestors in forest f
RECURSIVE Ancestors(_, _)
Ancestors(f, i) == IF i = 0 THEN {} ELSE {i} \cup Ancestors(f, f[i].Parent)

\* may an element with this tag be written inside element q of forest f
CanNest(f, q, data) ==
    \A k \in Ancestors(f, q) :
        /\ f[k].Data \notin rawTextTags
        /\ (f[k].Data = s_a /\ data = s_a) =>
              \E j \in Ancestors(f, q) : j > k /\ f[j].Data = s_object
        /\ f[k].Data = s_p => data \notin blockTags

\* forest f with one more element, the next in document order
Extensions(f, L) ==
    { Append(f, Element(x[1], x[2].Data, x[2].Attr, x[2].Text)) :
        x \in { y \in ({0} \cup Ancestors(f, Len(f))) \X L :
                  CanNest(f, y[1], y[2].Data) } }

\* the forests of at most n elements with labels from L
RECURSIVE Forests(_, _)
Forests(n, L) ==
    IF n = 0 THEN {<<>>}
    ELSE LET smaller == Forests(n - 1, L)
         IN  smaller \cup
             UNION { Extensions(f, L) : f \in {g \in smaller : Len(g) = n - 1} }

\* the tokens of element i of forest f, and of the elements below q
RECURSIVE Serialize(_, _)
Serialize(f, i) ==
    LET RECURSIVE over(_)
        over(cs) == IF cs = <<>> THEN <<>>
                    ELSE Serialize(f, Head(cs)) \o over(Tail(cs))
    IN  IF i = 0 THEN over(Children(f, 0))
        ELSE <<Token(StartTag, f[i].Data, f[i].Attr)>>
                 \o (IF f[i].Text = <<>> THEN <<>>
                     ELSE <<Token(Text, f[i].Text, <<>>)>>)
                 \o over(Children(f, i))
                 \o <<Token(EndTag, f[i].Data, <<>>)>>

\* what is written around the content: nothing, or the html and body tags
Wrapper(open, close) == [open |-> open, close |-> close]

s_BODY == <<"B","O","D","Y">>

NoWrapper == Wrapper(<<>>, <<>>)

BodyWrapper ==
    Wrapper(<<Token(StartTag, s_html, <<>>), Token(StartTag, s_body, <<>>)>>,
            <<Token(EndTag, s_body, <<>>), Token(EndTag, s_html, <<>>)>>)

UpperBodyWrapper ==
    Wrapper(<<Token(StartTag, s_BODY, <<>>)>>, <<Token(EndTag, s_BODY, <<>>)>>)

HiddenBodyWrapper ==
    Wrapper(<<Token(StartTag, s_body, <<Attribute(s_hidden, <<>>)>>)>>,
            <<Token(EndTag, s_body, <<>>)>>)

HiddenHtmlWrapper ==
    Wrapper(<<Token(StartTag, s_html, <<Attribute(s_hidden, <<>>)>>),
              Token(StartTag, s_body, <<>>)>>,
            <<Token(EndTag, s_body, <<>>), Token(EndTag, s_html, <<>>)>>)

Wrap(w, f) == w.open \o Serialize(f, 0) \o w.close

\* texts made different from one element to the next: the character # of
\* a text is replaced by the number of its element, so that a text found
\* in the output is known to come from one element
Digits == <<"1","2","3","4","5","6","7","8","9">>

MarkTexts(f) ==
    [i \in 1..Len(f) |->
        [f[i] EXCEPT !.Text =
            [j \in 1..Len(@) |-> IF @[j] = "#" THEN Digits[i] ELSE @[j]]]]

s_t      == <<"t", "#">>
s_body_x == <<"b","o","d","y","-","x">>
s_display_none_mixed ==
    <<"D","i","s","p","l","a","y",":"," ","N","O","N","E">>

\* the most elements an input is written from
MaxElements == 3

\* elements that are kept and elements that are removed, by tag, by the
\* hidden attribute and by their style; body-x is a custom element
RemovalLabels ==
    { Label(s_div, <<>>, s_t),
      Label(s_div, <<Attribute(s_hidden, <<>>)>>, s_t),
      Label(s_span, <<Attribute(s_style, s_display_none)>>, s_t),
      Label(s_p, <<Attribute(s_class, s_main),
                   Attribute(s_style, s_display_none_mixed)>>, s_t),
      Label(s_script, <<>>, s_t),
      Label(s_body_x, <<>>, s_t) }

Wrappers == {NoWrapper, BodyWrapper, UpperBodyWrapper, HiddenBodyWrapper}

RemovalInputs ==
    { Wrap(w, MarkTexts(f)) :
        w \in Wrappers, f \in Forests(MaxElements, RemovalLabels) }

s_content == <<"c","o","n","t","e","n","t">>
s_sidebar == <<"s","i","d","e","b","a","r">>
s_post    == <<"p","o","s","t">>
s_menu    == <<"m","e","n","u">>

\* containers of every score, a paragraph, a link and a chrome element;
\* texts with blanks around them, commas and the ideographic comma
SelectLabels ==
    { Label(s_div, <<Attribute(s_class, s_content)>>, <<>>),
      Label(s_div, <<Attribute(s_id, s_sidebar)>>, <<"#">>),
      Label(s_article, <<Attribute(s_class, s_nav)>>, <<>>),
      Label(s_main, <<>>, <<>>),
      Label(s_p, <<>>, <<" ", "#", ",", "E3", "80", "81", " ">>),
      Label(s_a, <<>>, <<" ", "#", " ">>),
      Label(s_nav, <<>>, <<"#">>),
      Label(s_section, <<Attribute(s_class, s_post), Attribute(s_id, s_menu)>>,
            <<",", ",", ",", ",", ",", ",", ",", ",", ",", ",", ",", "#">>) }

\* every forest inside html and body tags, and the smallest ones bare
SelectInputs ==
    { Wrap(BodyWrapper, MarkTexts(f)) :
        f \in Forests(MaxElements, SelectLabels) }
    \cup { Wrap(NoWrapper, MarkTexts(f)) : f \in Forests(1, SelectLabels) }

Start(inputs) ==
    /\ rawHTML \in inputs
    /\ doc = <<>>
    /\ body = Nil
    /\ candidate = Nil
    /\ result = <<>>
    /\ pc = "start"
    /\ toRemove = <<>>
    /\ index = 0
    /\ bestNode = Nil
    /\ bestScore = 0
    /\ walk = <<>>

Init == Start(RemovalInputs)

Spec == Init /\ [][Next]_vars

InitSelect == Start(SelectInputs)

SpecSelect == InitSelect /\ [][Next]_vars

---------------------------------------------------------------------------
(* What the properties speak of                                            *)

\* the document as html.Parse returned it, before anything was removed
Parsed == Parse(rawHTML)

\* removeUnwantedElements has run
Preprocessed == pc \in {"removed", "body", "candidate"} \/ (pc = "done" /\ doc # <<>>)

\* findBestCandidate has run
Selected == pc = "candidate" \/ (pc = "done" /\ candidate # Nil)

\* the nodes still in the document
InDocument == Subtree(doc, DocumentId)

\* node n of tree t and the nodes above it
RECURSIVE Above(_, _)
Above(t, n) == IF n = Nil THEN {} ELSE {n} \cup Above(t, t[n].Parent)

\* the removal criteria as the specification words them
UnwantedTagNames ==
    { <<"s","c","r","i","p","t">>, <<"s","t","y","l","e">>,
      <<"n","o","s","c","r","i","p","t">>, <<"i","f","r","a","m","e">>,
      <<"s","v","g">> }

HasHidden(node) ==
    \E i \in 1..Len(node.Attr) : node.Attr[i].Key = <<"h","i","d","d","e","n">>

HasDisplayNone(node) ==
    \E i \in 1..Len(node.Attr) :
        /\ node.Attr[i].Key = <<"s","t","y","l","e">>
        /\ Contains(node.Attr[i].Val,
                    <<"d","i","s","p","l","a","y",":","n","o","n","e">>)

Unwanted(node) ==
    /\ node.Type = ElementNode
    /\ \/ node.Data \in UnwantedTagNames
       \/ HasHidden(node)
       \/ HasDisplayNone(node)

\* the nodes of the parsed document in or below an unwanted element
InUnwanted ==
    LET P == Parsed
    IN  {n \in 1..Len(P) : \E k \in Above(P, n) : Unwanted(P[k])}

\* C1: after removeUnwantedElements(doc) no element left in the document has
\* an unwanted tag, a hidden attribute or a style attribute that contains
\* display:none, and every node in or below such an element is gone with it
C1_NoUnwantedLeft ==
    Preprocessed =>
        /\ \A n \in InDocument : ~Unwanted(doc[n])
        /\ InUnwanted \cap InDocument = {}

\* an element removed by each criterion, one of them with an element below it
C1_Witness ==
    LET P    == Parsed
        left == InDocument
        gone == {n \in 1..Len(P) : P[n].Type = ElementNode /\ n \notin left}
    IN  /\ pc = "removed"
        /\ \E n \in gone : P[n].Data \in UnwantedTagNames
        /\ \E n \in gone : HasDisplayNone(P[n])
        /\ \E n \in gone : HasHidden(P[n]) /\ \E m \in gone : P[m].Parent = n
        /\ BodyId \in left

\* C6: removeUnwantedElements is idempotent: on the document it has
\* processed it collects nothing and leaves the document as it is
C6_Idempotent ==
    Preprocessed =>
        /\ removeWalk(doc, DocumentId) = <<>>
        /\ removeUnwantedElements(doc, DocumentId) = doc

\* the first application removed two elements, one of them nested
C6_Witness ==
    /\ pc = "removed"
    /\ Len(removeWalk(Parsed, DocumentId)) >= 2
    /\ \E n \in 2..Len(doc) :
          /\ doc[n].Type = ElementNode /\ doc[n].Parent = Nil
          /\ \E m \in 1..Len(doc) :
                doc[m].Type = ElementNode /\ doc[m].Parent = n

\* C7: the node findBestCandidate returns after preprocessing never has a
\* tag of the unwanted set and never lies in a subtree the preprocessing
\* removed
C7_CandidateNotRemoved ==
    LET P         == Parsed
        collected == removeWalk(P, DocumentId)
    IN  Selected =>
            /\ doc[candidate].Data \notin UnwantedTagNames
            /\ \A i \in 1..Len(collected) :
                  candidate \notin Subtree(P, collected[i])
            /\ candidate \in InDocument

\* a container was removed with a container below it, and another one is
\* selected
C7_Witness ==
    LET P == Parsed
    IN  /\ pc = "candidate"
        /\ candidate # body
        /\ \E r \in 1..Len(P) :
              /\ doc[r].Parent = Nil /\ P[r].Parent # Nil
              /\ \E m \in 1..Len(P) :
                    /\ P[m].Parent = r
                    /\ P[m].Type = ElementNode /\ P[m].Data \in candidateTags

\* the input has a body start tag, in any letter case
HasBodyTag ==
    \E i \in 1..Len(rawHTML) :
        /\ rawHTML[i].Tok = StartTag
        /\ ToLower(rawHTML[i].Data) = <<"b","o","d","y">>

\* C8: for every input with no body tag, in any letter case, ExtractContent
\* returns the input unchanged and has not parsed, preprocessed, selected
\* or rendered anything
C8_NoBodyTagReturnsInput ==
    (pc = "done" /\ ~HasBodyTag) =>
        /\ result = rawHTML
        /\ doc = <<>>
        /\ candidate = Nil

\* the texts of the parsed document in or below an unwanted element
UnwantedTexts ==
    LET P == Parsed
    IN  {P[n].Data : n \in {m \in InUnwanted : P[m].Type = TextNode}}

ResultContains(text) == Contains(RawString(result), text)

\* C9: for every input with a body tag the string ExtractContent returns
\* contains no text of an element that has an unwanted tag, a hidden
\* attribute or a display:none style, nor of anything below such an element
C9_NoUnwantedText ==
    (pc = "done" /\ HasBodyTag) =>
        \A text \in UnwantedTexts : ~ResultContains(text)

\* C9 as amended: the same for every input with a body tag whose body
\* element is still in the document after preprocessing, so that a node is
\* rendered; when no body element is left the input itself is returned
C9_NoUnwantedTextRendered ==
    (pc = "done" /\ HasBodyTag /\ body # Nil) =>
        \A text \in UnwantedTexts : ~ResultContains(text)

\* a rendered result that holds a text while the text of a removed element
\* and the text of an element below it are left out
C9_Witness ==
    LET P == Parsed
    IN  /\ pc = "done" /\ HasBodyTag /\ body # Nil
        /\ \E n \in 1..Len(P) :
              /\ P[n].Type = TextNode /\ n \notin InUnwanted
              /\ ResultContains(P[n].Data)
        /\ \E n \in InUnwanted :
              /\ P[n].Type = TextNode
              /\ Unwanted(P[P[n].Parent])
              /\ \E m \in InUnwanted :
                    /\ P[m].Type = TextNode
                    /\ P[P[m].Parent].Parent = P[n].Parent

\* the candidate elements below the body, by the tags the specification
\* lists; the numbers of the nodes follow the document order
CandidateTagNames ==
    { <<"a","r","t","i","c","l","e">>, <<"m","a","i","n">>,
      <<"s","e","c","t","i","o","n">>, <<"d","i","v">> }

Candidates ==
    {n \in Subtree(doc, body) :
        doc[n].Type = ElementNode /\ doc[n].Data \in CandidateTagNames}

\* C2: a node findBestCandidate returns, other than the root it was given,
\* is an article, main, section or div whose score is at least the score
\* of every candidate and more than the score of every candidate before it
\* in document order
C2_FirstBestWins ==
    (Selected /\ candidate # body) =>
        /\ candidate \in Candidates
        /\ \A c \in Candidates :
              /\ scoreNode(doc, candidate) >= scoreNode(doc, c)
              /\ c < candidate => scoreNode(doc, candidate) > scoreNode(doc, c)

\* the best score is reached twice and the first of the two is returned,
\* after a candidate of a lower score and before one
C2_Witness ==
    /\ pc = "candidate" /\ candidate # body
    /\ \E c \in Candidates :
          /\ c > candidate /\ scoreNode(doc, c) = scoreNode(doc, candidate)
          /\ doc[c].Data = doc[candidate].Data
          /\ doc[c].Attr = doc[candidate].Attr
          /\ Subtree(doc, c) = {c} /\ Subtree(doc, candidate) = {candidate}
    /\ \E c \in Candidates :
          c < candidate /\ scoreNode(doc, c) < scoreNode(doc, candidate)

BaseScore(tag) ==
    CASE tag \in {<<"a","r","t","i","c","l","e">>, <<"m","a","i","n">>} -> 25
      [] tag = <<"s","e","c","t","i","o","n">> -> 10
      [] tag = <<"d","i","v">> -> 5
      [] tag = <<"p">> -> 3
      [] tag \in {<<"h","e","a","d","e","r">>, <<"f","o","o","t","e","r">>,
                  <<"n","a","v">>, <<"a","s","i","d","e">>,
                  <<"f","o","r","m">>} -> 0 - 25
      [] OTHER -> 0

PatternScore(node) ==
    LET combined == getAttr(node, s_class) \o <<" ">> \o getAttr(node, s_id)
    IN  (IF positivePattern(combined) THEN 25 ELSE 0)
            + (IF negativePattern(combined) THEN 0 - 25 ELSE 0)

RECURSIVE ConcatData(_, _)
ConcatData(t, ns) ==
    IF ns = <<>> THEN <<>> ELSE t[Head(ns)].Data \o ConcatData(t, Tail(ns))

TextOf(t, n) ==
    ConcatData(t, SortedSeq({m \in Subtree(t, n) : t[m].Type = TextNode}))

TextLengthOf(t, n) == Len(TrimSpace(TextOf(t, n)))

IsAnchor(t, m) == t[m].Type = ElementNode /\ t[m].Data = <<"a">>

\* the anchors in the subtree of n that are in no other anchor of it
OuterAnchors(t, n) ==
    {m \in Subtree(t, n) :
        /\ IsAnchor(t, m)
        /\ \A k \in (Above(t, m) \cap Subtree(t, n)) \ {m} : ~IsAnchor(t, k)}

RECURSIVE SumTextLength(_, _)
SumTextLength(t, S) ==
    IF S = {} THEN 0
    ELSE LET m == CHOOSE x \in S : TRUE
         IN  TextLengthOf(t, m) + SumTextLength(t, S \ {m})

LinkTextLengthOf(t, n) == SumTextLength(t, OuterAnchors(t, n))

\* (T - L) / T * T / 100 in hundredths
DensityScore(t, n) ==
    IF TextLengthOf(t, n) > 0
    THEN TextLengthOf(t, n) - LinkTextLengthOf(t, n)
    ELSE 0

ParagraphCount(t, n) ==
    Cardinality({m \in Subtree(t, n) :
                    t[m].Type = ElementNode /\ t[m].Data = <<"p">>})

PunctuationCount(t, n) ==
    LET text   == TextOf(t, n)
        commas == Cardinality({i \in 1..Len(text) : text[i] = ","})
                  + Cardinality({i \in 1..(Len(text) - 2) :
                        SubSeq(text, i, i + 2) = <<"E3", "80", "81">>})
    IN  IF commas > 10 THEN 10 ELSE commas

\* the four components that are whole numbers
WholeScore(t, n) ==
    BaseScore(t[n].Data) + PatternScore(t[n])
        + 3 * ParagraphCount(t, n) + PunctuationCount(t, n)

Elements == {n \in 1..Len(doc) : doc[n].Type = ElementNode}

\* C4: for every element, scoreNode is the sum of the base score of its
\* tag, the pattern score, the density score, 3 for every p element
\* counted in it and the number of commas capped at 10
C4_ScoreIsSumOfFive ==
    \A n \in Elements :
        scoreNode(doc, n) = 100 * WholeScore(doc, n) + DensityScore(doc, n)

\* an element with link text and other text, a paragraph two levels below
\* it and more than 10 commas, that matches both patterns
C4_Witness ==
    \E n \in Elements :
        /\ LinkTextLengthOf(doc, n) > 0
        /\ LinkTextLengthOf(doc, n) < TextLengthOf(doc, n)
        /\ \E m \in Subtree(doc, n) :
              /\ doc[m].Type = ElementNode /\ doc[m].Data = s_p
              /\ doc[m].Parent # n /\ m # n
        /\ Count(TextOf(doc, n), s_comma) > 10
        /\ positivePattern(getAttr(doc[n], s_class))
        /\ negativePattern(getAttr(doc[n], s_id))

\* C5: for every element the link text length is at most the text
\* length, so that the density component of its score is between 0 and
\* the text length in hundredths, never negative
C5_LinkTextWithinText ==
    \A n \in Elements :
        /\ getLinkTextLength(doc, n) <= getTextLength(doc, n)
        /\ scoreNode(doc, n) - 100 * WholeScore(doc, n) >= 0
        /\ scoreNode(doc, n) - 100 * WholeScore(doc, n) <= getTextLength(doc, n)

\* an element whose links hold a part of its text, each link text with
\* blanks around it, and a link, whose text is all link text
C5_Witness ==
    /\ \E n \in Elements :
          /\ getLinkTextLength(doc, n) > 0
          /\ getLinkTextLength(doc, n) < getTextLength(doc, n)
          /\ Len(getTextContent(doc, n)) > getTextLength(doc, n)
          /\ Cardinality(OuterAnchors(doc, n)) >= 2
    /\ \E n \in Elements :
          /\ doc[n].Data = s_a
          /\ getLinkTextLength(doc, n) = getTextLength(doc, n)
          /\ Len(getTextContent(doc, n)) > getTextLength(doc, n)

\* the texts in the subtrees of the nodes of S that are not blank
TextsIn(S) ==
    {doc[m].Data : m \in {k \in UNION {Subtree(doc, n) : n \in S} :
                             doc[k].Type = TextNode /\ TrimSpace(doc[k].Data) # <<>>}}

\* n holds a paragraph with text that is in no link
HasParagraphText(n) ==
    \E q \in Subtree(doc, n) :
        /\ doc[q].Type = ElementNode /\ doc[q].Data = <<"p">>
        /\ \E m \in Subtree(doc, q) :
              /\ doc[m].Type = TextNode /\ TrimSpace(doc[m].Data) # <<>>
              /\ \A k \in Above(doc, m) : ~IsAnchor(doc, k)

ChromeTagNames ==
    { <<"n","a","v">>, <<"h","e","a","d","e","r">>,
      <<"f","o","o","t","e","r">>, <<"a","s","i","d","e">> }

ElementChildren(n) ==
    {m \in 1..Len(doc) : doc[m].Parent = n /\ doc[m].Type = ElementNode}

\* the body holds the article or main element n with paragraph text, and
\* the other elements it holds are chrome elements
ArticleAmongChrome(n) ==
    /\ n \in ElementChildren(body)
    /\ doc[n].Data \in {<<"a","r","t","i","c","l","e">>, <<"m","a","i","n">>}
    /\ HasParagraphText(n)
    /\ \A m \in ElementChildren(body) \ {n} : doc[m].Data \in ChromeTagNames

\* n is selected and rendered: its texts are in the result, the texts of
\* the other children of the body are not
ArticleRendered(n) ==
    /\ candidate = n
    /\ \A text \in TextsIn({n}) : ResultContains(text)
    /\ \A text \in TextsIn(ElementChildren(body) \ {n}) : ~ResultContains(text)

---------------------------------------------------------------------------
(* Inputs for the class and id patterns and for chrome elements            *)

s_content_sidebar ==
    <<"c","o","n","t","e","n","t"," ","s","i","d","e","b","a","r">>

\* div elements of equal text whose class or id matches the positive
\* pattern, the negative one or both, an article that matches the positive
\* one, a nav element without text of its own and a link
ScoreLabels ==
    { Label(s_div, <<Attribute(s_class, s_content)>>, s_t),
      Label(s_div, <<Attribute(s_id, s_sidebar)>>, s_t),
      Label(s_div, <<Attribute(s_class, s_content_sidebar)>>, s_t),
      Label(s_article, <<Attribute(s_class, s_post)>>, s_t),
      Label(s_nav, <<>>, <<>>),
      Label(s_a, <<>>, <<" ", "#", " ">>) }

ScoreInputs ==
    { Wrap(BodyWrapper, MarkTexts(f)) :
        f \in Forests(MaxElements, ScoreLabels) }
    \cup { Wrap(NoWrapper, MarkTexts(f)) : f \in Forests(1, ScoreLabels) }

InitScore == Start(ScoreInputs)

SpecScore == InitScore /\ [][Next]_vars

\* p and q are sibling candidates of the same tag and the same text
\* metrics, p matches the positive pattern only, q the negative one only
SameMetrics(p, q) ==
    /\ TextLengthOf(doc, p) = TextLengthOf(doc, q)
    /\ LinkTextLengthOf(doc, p) = LinkTextLengthOf(doc, q)
    /\ ParagraphCount(doc, p) = ParagraphCount(doc, q)
    /\ PunctuationCount(doc, p) = PunctuationCount(doc, q)

PreferredPair(p, q) ==
    /\ p \in Candidates /\ q \in Candidates
    /\ doc[p].Parent = doc[q].Parent
    /\ doc[p].Data = doc[q].Data
    /\ SameMetrics(p, q)
    /\ PatternScore(doc[p]) = 25
    /\ PatternScore(doc[q]) = 0 - 25

\* C11: of two sibling candidates of the same tag and text metrics, one
\* matching only the positive pattern and one only the negative pattern,
\* the positive one has the higher score and is the node selected, in
\* either order
C11_PositiveSelected ==
    Selected =>
        \A p \in Candidates : \A q \in Candidates :
            PreferredPair(p, q) =>
                /\ scoreNode(doc, p) > scoreNode(doc, q)
                /\ candidate = p

\* C11 as amended: the positive one has the higher score, the negative one
\* is never selected, and the positive one is selected when every other
\* candidate below the body has a lower score than it
C11_PositivePreferred ==
    Selected =>
        \A p \in Candidates : \A q \in Candidates :
            PreferredPair(p, q) =>
                /\ scoreNode(doc, p) = scoreNode(doc, q) + 50 * Scale
                /\ candidate # q
                /\ (\A c \in Candidates \ {p} :
                        scoreNode(doc, c) < scoreNode(doc, p)) => candidate = p

\* the negative one comes first, the positive one after it is selected
C11_Witness ==
    /\ pc = "candidate"
    /\ \E p \in Candidates : \E q \in Candidates :
          /\ PreferredPair(p, q)
          /\ q < p
          /\ TextLengthOf(doc, p) > 0
          /\ candidate = p

---------------------------------------------------------------------------
(* The fallback to the body                                                *)

---------------------------------------------------------------------------
(* Chrome elements made of links                                           *)

NegativeBaseTagNames ==
    { <<"n","a","v">>, <<"h","e","a","d","e","r">>,
      <<"f","o","o","t","e","r">>, <<"a","s","i","d","e">>,
      <<"f","o","r","m">> }

\* every text below n that is not blank is inside a link below n
AllTextInLinks(n) ==
    \A m \in Subtree(doc, n) :
        (doc[m].Type = TextNode /\ TrimSpace(doc[m].Data) # <<>>) =>
            \E k \in (Above(doc, m) \cap Subtree(doc, n)) \ {n} :
                IsAnchor(doc, k)

NoPositiveMatch(node) ==
    /\ ~positivePattern(getAttr(node, s_class))
    /\ ~positivePattern(getAttr(node, s_id))

\* the blanks a link text of the long kind has on each side
MaxBlanks == 1300

Blanks(n) == [i \in 1..n |-> " "]

\* a nav element, links whose text has one blank or many on each side,
\* and a paragraph
ChromeLabels ==
    { Label(s_nav, <<>>, <<>>),
      Label(s_a, <<>>, <<" ", "#", " ">>),
      Label(s_a, <<>>, Blanks(MaxBlanks) \o <<"#">> \o Blanks(MaxBlanks)),
      Label(s_p, <<>>, s_t) }

ChromeInputs ==
    { Wrap(BodyWrapper, MarkTexts(f)) :
        f \in Forests(MaxElements, ChromeLabels) }
    \cup { Wrap(NoWrapper, MarkTexts(f)) : f \in Forests(1, ChromeLabels) }

InitChrome == Start(ChromeInputs)

SpecChrome == InitChrome /\ [][Next]_vars

\* n is a chrome element as the claim describes it
ChromeOfLinks(n) ==
    /\ doc[n].Data \in NegativeBaseTagNames
    /\ AllTextInLinks(n)
    /\ ParagraphCount(doc, n) = 0
    /\ PunctuationCount(doc, n) = 0
    /\ NoPositiveMatch(doc[n])

---------------------------------------------------------------------------
(* Style values written with white space                                   *)

s_display_tab_none ==
    <<"d","i","s","p","l","a","y",":","\t","n","o","n","e">>
s_display_newline_none ==
    <<"D","i","s","p","l","a","y"," ",":","\n"," ","N","o","n","e">>
s_display_block ==
    <<"d","i","s","p","l","a","y",":"," ","b","l","o","c","k">>

\* the same declaration with nothing, a blank, a tab or a line break in
\* it, and one that hides nothing
StyleLabels ==
    { Label(s_div, <<>>, s_t),
      Label(s_span, <<Attribute(s_style, s_display_none)>>, s_t),
      Label(s_span, <<Attribute(s_style, s_display_none_mixed)>>, s_t),
      Label(s_span, <<Attribute(s_style, s_display_tab_none)>>, s_t),
      Label(s_p, <<Attribute(s_style, s_display_newline_none)>>, s_t),
      Label(s_span, <<Attribute(s_style, s_display_block)>>, s_t) }

StyleInputs ==
    { Wrap(BodyWrapper, MarkTexts(f)) :
        f \in Forests(MaxElements, StyleLabels) }
    \cup { Wrap(NoWrapper, MarkTexts(f)) : f \in Forests(1, StyleLabels) }

InitStyle == Start(StyleInputs)

SpecStyle == InitStyle /\ [][Next]_vars

\* a style value without its white space, in lower case
WithoutWhitespace(v) == SelectSeq(v, LAMBDA c : c \notin {" ", "\t", "\n"})

HidesByStyle(node) ==
    \E i \in 1..Len(node.Attr) :
        /\ node.Attr[i].Key = <<"s","t","y","l","e">>
        /\ Contains(ToLower(WithoutWhitespace(node.Attr[i].Val)),
                    <<"d","i","s","p","l","a","y",":","n","o","n","e">>)

\* C14: after preprocessing no element is left whose style value, with
\* all spaces, tabs and line breaks taken out and in lower case, contains
\* display:none
C14_StyleWhitespaceRemoved ==
    Preprocessed =>
        \A n \in InDocument :
            doc[n].Type = ElementNode => ~HidesByStyle(doc[n])

---------------------------------------------------------------------------
(* Concurrent invocations                                                  *)
(*                                                                         *)
(* Each invocation of ExtractContent has its own rawHTML, doc, body,       *)
(* candidate and returned string: they are parameters and local variables  *)
(* of the function, and the closures of removeUnwantedElements and         *)
(* findBestCandidate capture local variables only.  Here every variable    *)
(* is a function from the invocations to what the variable is in the       *)
(* sequential specifications.  tagScores, unwantedTags, candidateTags and  *)
(* the two patterns are package variables that no statement assigns to.    *)

Invocations == {1, 2}

\* an assignment as if the variable were one package variable for all
\* invocations
Store_Shared(f, p, v) == [q \in DOMAIN f |-> v]

\* an assignment to a local variable of invocation p
Store(f, p, v) == [f EXCEPT ![p] = v]

SkipExtractionIn(p) ==
    /\ pc[p] = "start"
    /\ ~Contains(ToLower(RawString(rawHTML[p])), s_lt_body)
    /\ result' = Store(result, p, rawHTML[p])
    /\ pc' = [pc EXCEPT ![p] = "done"]
    /\ UNCHANGED <<locals, rawHTML, doc, body, candidate>>

ParseHTMLIn(p) ==
    /\ pc[p] = "start"
    /\ Contains(ToLower(RawString(rawHTML[p])), s_lt_body)
    /\ doc' = Store(doc, p, Parse(rawHTML[p]))
    /\ pc' = [pc EXCEPT ![p] = "parsed"]
    /\ UNCHANGED <<locals, rawHTML, body, candidate, result>>

RemoveUnwantedIn(p) ==
    /\ pc[p] = "parsed"
    /\ doc' = Store(doc, p, removeUnwantedElements(doc[p], DocumentId))
    /\ pc' = [pc EXCEPT ![p] = "removed"]
    /\ UNCHANGED <<locals, rawHTML, body, candidate, result>>

FindBodyIn(p) ==
    /\ pc[p] = "removed"
    /\ body' = Store(body, p, findElement(doc[p], DocumentId, s_body))
    /\ IF body'[p] = Nil
       THEN result' = Store(result, p, rawHTML[p])
                /\ pc' = [pc EXCEPT ![p] = "done"]
       ELSE result' = result /\ pc' = [pc EXCEPT ![p] = "body"]
    /\ UNCHANGED <<locals, rawHTML, doc, candidate>>

FindBestIn(p) ==
    /\ pc[p] = "body"
    /\ candidate' = Store(candidate, p, findBestCandidate(doc[p], body[p]))
    /\ IF candidate'[p] = Nil
       THEN result' = Store(result, p, rawHTML[p])
                /\ pc' = [pc EXCEPT ![p] = "done"]
       ELSE result' = result /\ pc' = [pc EXCEPT ![p] = "candidate"]
    /\ UNCHANGED <<locals, rawHTML, doc, body>>

RenderCandidateIn(p) ==
    /\ pc[p] = "candidate"
    /\ result' = Store(result, p, renderNode(doc[p], candidate[p]))
    /\ pc' = [pc EXCEPT ![p] = "done"]
    /\ UNCHANGED <<locals, rawHTML, doc, body, candidate>>

NextConcurrent ==
    \E p \in Invocations :
        \/ SkipExtractionIn(p)
        \/ ParseHTMLIn(p)
        \/ RemoveUnwantedIn(p)
        \/ FindBodyIn(p)
        \/ FindBestIn(p)
        \/ RenderCandidateIn(p)

\* a container that matches the positive pattern, a hidden one and a script
ConcurrentLabels ==
    { Label(s_div, <<Attribute(s_class, s_content)>>, s_t),
      Label(s_div, <<Attribute(s_hidden, <<>>)>>, s_t),
      Label(s_script, <<>>, s_t) }

ConcurrentInputs ==
    { Wrap(BodyWrapper, MarkTexts(f)) : f \in Forests(2, ConcurrentLabels) }
    \cup { Wrap(NoWrapper, MarkTexts(f)) : f \in Forests(1, ConcurrentLabels) }

InitConcurrent ==
    /\ rawHTML \in [Invocations -> ConcurrentInputs]
    /\ doc = [p \in Invocations |-> <<>>]
    /\ body = [p \in Invocations |-> Nil]
    /\ candidate = [p \in Invocations |-> Nil]
    /\ result = [p \in Invocations |-> <<>>]
    /\ pc = [p \in Invocations |-> "start"]
    /\ toRemove = [p \in Invocations |-> <<>>]
    /\ index = [p \in Invocations |-> 0]
    /\ bestNode = [p \in Invocations |-> Nil]
    /\ bestScore = [p \in Invocations |-> 0]
    /\ walk = [p \in Invocations |-> <<>>]

SpecConcurrent == InitConcurrent /\ [][NextConcurrent]_vars

\* ExtractContent as one function of its argument: what an invocation
\* returns when it runs alone
ExtractContent(raw) ==
    IF ~Contains(ToLower(RawString(raw)), s_lt_body) THEN raw
    ELSE LET d == removeUnwantedElements(Parse(raw), DocumentId)
             b == findElement(d, DocumentId, s_body)
         IN  IF b = Nil THEN raw
             ELSE LET c == findBestCandidate(d, b)
                  IN  IF c = Nil THEN raw ELSE renderNode(d, c)

\* C15: under every interleaving of two invocations the tree of each is
\* what its own input was parsed to and what its own preprocessing left of
\* it, and each returns what it returns when it runs alone
C15_NoInterference ==
    \A p \in Invocations :
        /\ pc[p] = "parsed" => doc[p] = Parse(rawHTML[p])
        /\ pc[p] \in {"removed", "body", "candidate"} =>
              doc[p] = removeUnwantedElements(Parse(rawHTML[p]), DocumentId)
        /\ pc[p] = "done" => result[p] = ExtractContent(rawHTML[p])

\* one invocation has returned a rendered node while the other one, on
\* another input, is between its preprocessing and its selection
C15_Witness ==
    /\ pc[1] = "done" /\ candidate[1] # Nil
    /\ pc[2] = "body"
    /\ rawHTML[1] # rawHTML[2]
    /\ doc[1] # doc[2]
    /\ doc[1] # Parse(rawHTML[1])
    /\ doc[2] # Parse(rawHTML[2])
    /\ result[1] # rawHTML[1]

---------------------------------------------------------------------------
(* What the selection leaves alone                                         *)

---------------------------------------------------------------------------
(* Convert (converter.go): the regular expressions                         *)
(*                                                                         *)
(* A match is the record of where it starts and ends, with what its        *)
(* submatches are; start = 0 stands for no match.  The patterns that have  *)
(* a submatch (.*?) are of one shape: start tags <name[^>]*>, the lazy     *)
(* submatch, and a closing literal.  [^>]* ends at the first > and (.*?)   *)
(* at the first closing literal; without the s flag the submatch cannot    *)
(* cross a line break.  A value that is used more than once is handed on   *)
(* as an argument.                                                         *)

s_nl   == <<"\n">>
s_nlnl == <<"\n", "\n">>

\* the greatest number of a non-empty set of numbers
MaxOf(S) == CHOOSE x \in S : \A y \in S : y <= x

\* the first place from position from on where a character of chars is
FirstOf(s, from, chars) ==
    IF \E j \in from..Len(s) : s[j] \in chars
    THEN MinOf({j \in from..Len(s) : s[j] \in chars})
    ELSE 0

\* a literal at position i, under the i flag
FoldAt(s, i, lit) ==
    /\ i >= 1 /\ i + Len(lit) - 1 <= Len(s)
    /\ ToLower(SubSeq(s, i, i + Len(lit) - 1)) = ToLower(lit)

\* (?i)<name[^>]*> at position i: where its > is, 0 without a match
StartTagEnd(s, i, name) ==
    IF FoldAt(s, i, <<"<">> \o name)
    THEN FirstOf(s, i + 1 + Len(name), {">"})
    ELSE 0

\* start tags one after the other, as in <pre[^>]*><code[^>]*>: where the
\* last one ends, the first one ending at e
RECURSIVE OpenEnd(_, _, _)
RECURSIVE OpenRest(_, _, _)
OpenRest(s, e, names) ==
    IF e = 0 \/ Len(names) = 1 THEN e
    ELSE OpenEnd(s, e + 1, Tail(names))

OpenEnd(s, i, names) == OpenRest(s, StartTagEnd(s, i, Head(names)), names)

NoMatch == [start |-> 0, end |-> 0]

\* a match without a submatch, from i to e
MatchEnd(i, e) == IF e = 0 THEN NoMatch ELSE [start |-> i, end |-> e]

\* a pattern with a submatch: the alternatives of its start tags, the
\* alternatives of its closing literal, and its s flag
Pattern(open, close, dotall) ==
    [kind |-> "element", open |-> open, close |-> close, dotall |-> dotall]

CloseAt(s, k, re) == \E c \in re.close : FoldAt(s, k, c)

\* the match that starts at i, whose start tags end at e and whose closing
\* literal is at k
MatchOf(s, i, re, e, k) ==
    IF ~re.dotall /\ \E j \in (e + 1)..(k - 1) : s[j] = "\n"
    THEN NoMatch
    ELSE [start |-> i, from |-> e + 1, to |-> k - 1,
          end |-> k + Len(CHOOSE c \in re.close : FoldAt(s, k, c)) - 1]

\* ... whose closing literal is at the first place of ks
MatchTo(s, i, re, e, ks) ==
    IF ks = {} THEN NoMatch ELSE MatchOf(s, i, re, e, MinOf(ks))

\* ... whose start tags end at the place in es
MatchFrom(s, i, re, es) ==
    IF es = {} THEN NoMatch
    ELSE MatchTo(s, i, re, MinOf(es),
                 {k \in (MinOf(es) + 1)..Len(s) : CloseAt(s, k, re)})

\* the match of a pattern with a submatch that starts at position i
ElementAt(s, i, re) ==
    MatchFrom(s, i, re, {OpenEnd(s, i, o) : o \in re.open} \ {0})

QuoteChars == {"\"", "'"}

\* (?i)key=["']([^"']*)["'] at position i: the value lies between the
\* quote after = and the next quote, of either kind
AttrAt(s, i, key) ==
    /\ FoldAt(s, i, key \o <<"=">>)
    /\ i + Len(key) + 1 <= Len(s)
    /\ s[i + Len(key) + 1] \in QuoteChars
    /\ FirstOf(s, i + Len(key) + 2, QuoteChars) # 0

AttrClose(s, i, key) == FirstOf(s, i + Len(key) + 2, QuoteChars)
AttrVal(s, i, key)   == SubSeq(s, i + Len(key) + 2, AttrClose(s, i, key) - 1)

\* where [^>]*key=["']...["'] can have its key, from position from on
AttrPlaces(s, from, key) ==
    {i \in from..Len(s) :
        /\ \A j \in from..(i - 1) : s[j] # ">"
        /\ AttrAt(s, i, key)}

\* [^>]*> after the attribute at i: where the > is, 0 when there is none
TagClose(s, i, key) == FirstOf(s, AttrClose(s, i, key) + 1, {">"})

s_href == <<"h","r","e","f">>
s_src  == <<"s","r","c">>
s_alt  == <<"a","l","t">>
s_img  == <<"i","m","g">>
s_close_a == <<"<","/","a",">">>

\* where (.*?)</a> can end after the > at g
linkCloses(s, g) ==
    IF g = 0 THEN {} ELSE {k \in (g + 1)..Len(s) : FoldAt(s, k, s_close_a)}

\* reLink at position i: the places of href after which the rest matches
linkPlaces(s, i) ==
    IF ~FoldAt(s, i, <<"<">> \o s_a) THEN {}
    ELSE {p \in AttrPlaces(s, i + 2, s_href) :
             linkCloses(s, TagClose(s, p, s_href)) # {}}

linkMatch(s, i, p, g, ks) ==
    [start |-> i, from |-> g + 1, to |-> MinOf(ks) - 1, end |-> MinOf(ks) + 3,
     url |-> AttrVal(s, p, s_href)]

linkFrom(s, i, p, g) == linkMatch(s, i, p, g, linkCloses(s, g))

\* [^>]* is greedy: href is the last one that the rest allows
linkWith(s, i, places) ==
    IF places = {} THEN NoMatch
    ELSE linkFrom(s, i, MaxOf(places), TagClose(s, MaxOf(places), s_href))

linkAt(s, i) == linkWith(s, i, linkPlaces(s, i))

\* <img[^>]*first=...[^>]*second=...[^>]*/?> at position i: the places of
\* the two keys
imgPlaces(s, i, first, second) ==
    IF ~FoldAt(s, i, <<"<">> \o s_img) THEN {}
    ELSE {pq \in AttrPlaces(s, i + 4, first) \X (1..Len(s)) :
             /\ pq[2] \in AttrPlaces(s, AttrClose(s, pq[1], first) + 1, second)
             /\ TagClose(s, pq[2], second) # 0}

imgMatch(s, i, first, second, p, q) ==
    [start |-> i, end |-> TagClose(s, q, second),
     one |-> AttrVal(s, p, first), two |-> AttrVal(s, q, second)]

imgFirst(s, i, first, second, places, p) ==
    imgMatch(s, i, first, second, p,
             MaxOf({pq[2] : pq \in {x \in places : x[1] = p}}))

\* the first key as far right as the rest allows, then the second one
imgWith(s, i, first, second, places) ==
    IF places = {} THEN NoMatch
    ELSE imgFirst(s, i, first, second, places,
                  MaxOf({pq[1] : pq \in places}))

imgAt(s, i, first, second) ==
    imgWith(s, i, first, second, imgPlaces(s, i, first, second))

\* reImgSrc at position i
imgSrcPlaces(s, i) ==
    IF ~FoldAt(s, i, <<"<">> \o s_img) THEN {}
    ELSE {p \in AttrPlaces(s, i + 4, s_src) : TagClose(s, p, s_src) # 0}

imgSrcWith(s, i, places) ==
    IF places = {} THEN NoMatch
    ELSE [start |-> i, end |-> TagClose(s, MaxOf(places), s_src),
          one |-> AttrVal(s, MaxOf(places), s_src)]

imgSrcAt(s, i) == imgSrcWith(s, i, imgSrcPlaces(s, i))

\* (?i)<name\s*/?> at position i: where its > is, 0 without a match
VoidTagEnd(s, i, name) ==
    IF ~FoldAt(s, i, <<"<">> \o name) THEN 0
    ELSE LET after == {j \in (i + 1 + Len(name))..Len(s) :
                          s[j] \notin {" ", "\t", "\n"}}
         IN  IF after = {} THEN 0
             ELSE LET j == MinOf(after)
                  IN  IF s[j] = ">" THEN j
                      ELSE IF s[j] = "/" /\ j < Len(s) /\ s[j + 1] = ">"
                           THEN j + 1
                           ELSE 0

\* (?i)</?p[^>]*> at position i
PTagEnd(s, i) ==
    IF FoldAt(s, i, <<"<","/","p">>) THEN FirstOf(s, i + 3, {">"})
    ELSE StartTagEnd(s, i, s_p)

hTag(n) == <<"h", Digits[n]>>

reH(n)       == Pattern({<<hTag(n)>>}, {<<"<", "/">> \o hTag(n) \o <<">">>}, FALSE)
reParagraph  == Pattern({<<s_p>>}, {<<"<","/","p",">">>}, FALSE)
reBlockquote == Pattern({<< <<"b","l","o","c","k","q","u","o","t","e">> >>},
                        {<<"<","/","b","l","o","c","k","q","u","o","t","e",">">>},
                        TRUE)
s_pre  == <<"p","r","e">>
s_code == <<"c","o","d","e">>
rePreCode    == Pattern({<<s_pre, s_code>>},
                        {<<"<","/","c","o","d","e",">","<","/","p","r","e",">">>},
                        TRUE)
rePre        == Pattern({<<s_pre>>}, {<<"<","/","p","r","e",">">>}, TRUE)
reHr         == [kind |-> "void", name |-> <<"h","r">>]
reUl         == Pattern({<< <<"u","l">> >>}, {<<"<","/","u","l",">">>}, TRUE)
reOl         == Pattern({<< <<"o","l">> >>}, {<<"<","/","o","l",">">>}, TRUE)
reLi         == Pattern({<< <<"l","i">> >>}, {<<"<","/","l","i",">">>}, TRUE)
rePTag       == [kind |-> "ptag"]
reTable      == Pattern({<< <<"t","a","b","l","e">> >>},
                        {<<"<","/","t","a","b","l","e",">">>}, TRUE)
reRow        == Pattern({<< <<"t","r">> >>}, {<<"<","/","t","r",">">>}, TRUE)
reTh         == Pattern({<< <<"t","h">> >>}, {<<"<","/","t","h",">">>}, TRUE)
reTd         == Pattern({<< <<"t","d">> >>}, {<<"<","/","t","d",">">>}, TRUE)
reLink       == [kind |-> "link"]
reImgSrcAlt  == [kind |-> "image", first |-> s_src, second |-> s_alt]
reImgAltSrc  == [kind |-> "image", first |-> s_alt, second |-> s_src]
reImgSrc     == [kind |-> "imagesrc"]
reBold       == Pattern({<< <<"s","t","r","o","n","g">> >>, << <<"b">> >>},
                        {<<"<","/","s","t","r","o","n","g",">">>,
                         <<"<","/","b",">">>}, TRUE)
reItalic     == Pattern({<< <<"e","m">> >>, << <<"i">> >>},
                        {<<"<","/","e","m",">">>, <<"<","/","i",">">>}, TRUE)
reInlineCode == Pattern({<<s_code>>}, {<<"<","/","c","o","d","e",">">>}, TRUE)
reBr         == [kind |-> "void", name |-> <<"b","r">>]
reHtmlTag    == [kind |-> "tag"]

\* the match of pattern re that starts at position i; every pattern
\* starts with <
MatchAt(s, i, re) ==
    IF s[i] # "<" THEN NoMatch
    ELSE CASE re.kind = "element"  -> ElementAt(s, i, re)
           [] re.kind = "link"     -> linkAt(s, i)
           [] re.kind = "image"    -> imgAt(s, i, re.first, re.second)
           [] re.kind = "imagesrc" -> imgSrcAt(s, i)
           [] re.kind = "void"     -> MatchEnd(i, VoidTagEnd(s, i, re.name))
           [] re.kind = "ptag"     -> MatchEnd(i, PTagEnd(s, i))
           [] re.kind = "tag"      -> MatchEnd(i, FirstOf(s, i + 1, {">"}))

\* the matches from left to right, each one sought after the end of the
\* one before
RECURSIVE FindAllFrom(_, _, _)
RECURSIVE FindFirst(_, _, _)
RECURSIVE FindRest(_, _, _)
FindRest(s, re, m) == <<m>> \o FindAllFrom(s, m.end + 1, re)

FindFirst(s, re, starts) ==
    IF starts = {} THEN <<>>
    ELSE FindRest(s, re, MatchAt(s, MinOf(starts), re))

FindAllFrom(s, from, re) ==
    FindFirst(s, re, {i \in from..Len(s) : MatchAt(s, i, re).start # 0})

\* re.FindAllStringSubmatch(s, -1)
FindAllStringSubmatch(re, s) == FindAllFrom(s, 1, re)

\* the submatch (.*?) of match m
Inner(s, m) == SubSeq(s, m.from, m.to)

\* s with match ms[k] replaced by reps[k]
RECURSIVE Splice(_, _, _, _)
Splice(s, from, ms, reps) ==
    IF ms = <<>> THEN SubSeq(s, from, Len(s))
    ELSE SubSeq(s, from, Head(ms).start - 1) \o Head(reps)
             \o Splice(s, Head(ms).end + 1, Tail(ms), Tail(reps))

ReplaceMatches(s, ms, F(_)) ==
    Splice(s, 1, ms, [k \in 1..Len(ms) |-> F(ms[k])])

\* re.ReplaceAllStringFunc(s, F), F taking the match
ReplaceAllStringFunc(re, s, F(_)) ==
    ReplaceMatches(s, FindAllStringSubmatch(re, s), F)

\* re.ReplaceAllString(s, rep), for a rep without $
ReplaceAllString(re, s, rep) ==
    ReplaceAllStringFunc(re, s, LAMBDA m : rep)

\* the same where the function has several possible results: reps[k] is
\* the set of the strings that match ms[k] can become
RECURSIVE SpliceOutcomes(_, _, _, _)
SpliceOutcomes(s, from, ms, reps) ==
    IF ms = <<>> THEN {SubSeq(s, from, Len(s))}
    ELSE {SubSeq(s, from, Head(ms).start - 1) \o r \o t :
             r \in Head(reps),
             t \in SpliceOutcomes(s, Head(ms).end + 1, Tail(ms), Tail(reps))}

ReplaceMatchesOutcomes(s, ms, F(_)) ==
    SpliceOutcomes(s, 1, ms, [k \in 1..Len(ms) |-> F(ms[k])])

ReplaceAllStringFuncOutcomes(re, s, F(_)) ==
    ReplaceMatchesOutcomes(s, FindAllStringSubmatch(re, s), F)

\* strings.Join
RECURSIVE Join(_, _)
Join(elems, sep) ==
    IF elems = <<>> THEN <<>>
    ELSE IF Len(elems) = 1 THEN Head(elems)
    ELSE Head(elems) \o sep \o Join(Tail(elems), sep)

\* strings.Split
RECURSIVE Split(_, _)
Split(s, sep) ==
    IF Occurrences(s, sep) = {} THEN <<s>>
    ELSE LET first == MinOf(Occurrences(s, sep))
         IN  <<SubSeq(s, 1, first - 1)>>
                 \o Split(SubSeq(s, first + Len(sep), Len(s)), sep)

\* concatenation of the strings of a sequence
Concat(elems) == Join(elems, <<>>)

\* strings.TrimSpace of every string of a sequence
TrimEach(elems) == [k \in 1..Len(elems) |-> TrimSpace(elems[k])]

---------------------------------------------------------------------------
(* Convert: block elements                                                 *)

\* the elements of s at the places of the set keep, in their order
Keep(s, keep) ==
    LET idx == SelectSeq([i \in 1..Len(s) |-> i], LAMBDA i : i \in keep)
    IN  [k \in 1..Len(idx) |-> s[idx[k]]]

\* reWhitespace.ReplaceAllString(s, " "): of a run of blanks and tabs the
\* first character is kept, as a blank
normalizeWhitespace(s) ==
    LET blank(i) == s[i] \in {" ", "\t"}
        t == [i \in 1..Len(s) |-> IF blank(i) THEN " " ELSE s[i]]
    IN  Keep(t, {i \in 1..Len(s) : ~blank(i) \/ i = 1 \/ ~blank(i - 1)})

\* the prefix of a heading of level n
RECURSIVE Hashes(_)
Hashes(n) == IF n = 0 THEN <<" ">> ELSE <<"#">> \o Hashes(n - 1)

\* one turn of the loop of convertHeadings
convertHeading(s, n) ==
    ReplaceAllStringFunc(reH(n), s,
        LAMBDA m : s_nlnl \o Hashes(n) \o TrimSpace(Inner(s, m)) \o s_nlnl)

\* the loop over the levels: h6 first, h1 last
RECURSIVE convertHeadingsFrom(_, _)
convertHeadingsFrom(s, n) ==
    IF n = 0 THEN s ELSE convertHeadingsFrom(convertHeading(s, n), n - 1)

convertHeadings(s) == convertHeadingsFrom(s, 6)

convertParagraphs(s) ==
    ReplaceAllStringFunc(reParagraph, s,
        LAMBDA m : s_nlnl \o TrimSpace(Inner(s, m)) \o s_nlnl)

QuoteEach(lines) == [k \in 1..Len(lines) |-> <<">", " ">> \o lines[k]]

\* the lines of a blockquote, trimmed, the empty ones left out, quoted
quoteLines(inner) ==
    QuoteEach(SelectSeq(TrimEach(Split(TrimSpace(inner), s_nl)),
                        LAMBDA line : line # <<>>))

convertBlockquotes(s) ==
    ReplaceAllStringFunc(reBlockquote, s,
        LAMBDA m : s_nlnl \o Join(quoteLines(Inner(s, m)), s_nl) \o s_nlnl)

convertHorizontalRules(s) ==
    ReplaceAllString(reHr, s, s_nlnl \o <<"-","-","-">> \o s_nlnl)

\* strconv.Itoa of a number that is not negative
RECURSIVE Itoa(_)
Itoa(n) ==
    LET digit == IF n % 10 = 0 THEN <<"0">> ELSE <<Digits[n % 10]>>
    IN  IF n < 10 THEN digit ELSE Itoa(n \div 10) \o digit

\* the loop over the matches of convertListItems
listItems(s, matches, ordered) ==
    [i \in 1..Len(matches) |->
        (IF ordered THEN Itoa(i) \o <<".", " ">> ELSE <<"-", " ">>)
            \o TrimSpace(ReplaceAllString(rePTag,
                                          TrimSpace(Inner(s, matches[i])),
                                          <<>>))]

convertListItems(s, ordered) ==
    Join(listItems(s, FindAllStringSubmatch(reLi, s), ordered), s_nl)

convertUnorderedLists(s) ==
    ReplaceAllStringFunc(reUl, s,
        LAMBDA m : s_nlnl \o convertListItems(Inner(s, m), FALSE) \o s_nlnl)

convertOrderedLists(s) ==
    ReplaceAllStringFunc(reOl, s,
        LAMBDA m : s_nlnl \o convertListItems(Inner(s, m), TRUE) \o s_nlnl)

convertLists(s) == convertOrderedLists(convertUnorderedLists(s))

---------------------------------------------------------------------------
(* Convert: tables                                                         *)

\* the submatches of the matches ms of row, trimmed
cellsOf(row, ms) == [k \in 1..Len(ms) |-> TrimSpace(Inner(row, ms[k]))]

\* the th cells, then the td cells
extractCells(row) ==
    cellsOf(row, FindAllStringSubmatch(reTh, row))
        \o cellsOf(row, FindAllStringSubmatch(reTd, row))

\* separatorLine as if a table had one column
separatorLine_OneColumn(cells) == <<"|"," ","-","-","-"," ","|">>

\* "|" followed by " --- |" for every cell
separatorLine(cells) ==
    <<"|">> \o Concat([k \in 1..Len(cells) |-> <<" ","-","-","-"," ","|">>])

\* what one turn of the loop of convertTableContent appends to result
rowLines(cells, headerWritten) ==
    IF cells = <<>> THEN <<>>
    ELSE << <<"|", " ">> \o Join(cells, <<" ", "|", " ">>) \o <<" ", "|">> >>
             \o (IF ~headerWritten THEN <<separatorLine(cells)>> ELSE <<>>)

\* the loop, from the row Head(rows) on
RECURSIVE tableLines(_, _, _)
RECURSIVE tableLinesWith(_, _, _, _)
tableLinesWith(s, rows, headerWritten, cells) ==
    rowLines(cells, headerWritten)
        \o tableLines(s, Tail(rows), headerWritten \/ cells # <<>>)

tableLines(s, rows, headerWritten) ==
    IF rows = <<>> THEN <<>>
    ELSE tableLinesWith(s, rows, headerWritten,
                        extractCells(Inner(s, Head(rows))))

convertRows(s, rows) ==
    IF Len(rows) = 0 THEN <<>>
    ELSE Join(tableLines(s, rows, FALSE), s_nl)

convertTableContent(s) == convertRows(s, FindAllStringSubmatch(reRow, s))

convertTables(s) ==
    ReplaceAllStringFunc(reTable, s,
        LAMBDA m : s_nlnl \o convertTableContent(Inner(s, m)) \o s_nlnl)

---------------------------------------------------------------------------
(* Convert: inline elements                                                *)

\* "[$2]($1)"
convertLinks(s) ==
    ReplaceAllStringFunc(reLink, s,
        LAMBDA m : <<"[">> \o Inner(s, m) \o <<"]", "(">> \o m.url \o <<")">>)

image(alt, src) == <<"!", "[">> \o alt \o <<"]", "(">> \o src \o <<")">>

\* "![$2]($1)"
convertImagesSrcAlt(s) ==
    ReplaceAllStringFunc(reImgSrcAlt, s, LAMBDA m : image(m.two, m.one))

\* "![$1]($2)"
convertImagesAltSrc(s) ==
    ReplaceAllStringFunc(reImgAltSrc, s, LAMBDA m : image(m.one, m.two))

\* "![]($1)"
convertImagesSrc(s) ==
    ReplaceAllStringFunc(reImgSrc, s, LAMBDA m : image(<<>>, m.one))

convertImages(s) ==
    convertImagesSrc(convertImagesAltSrc(convertImagesSrcAlt(s)))

\* "**$2**"
convertBold(s) ==
    ReplaceAllStringFunc(reBold, s,
        LAMBDA m : <<"*","*">> \o Inner(s, m) \o <<"*","*">>)

\* "*$2*"
convertItalic(s) ==
    ReplaceAllStringFunc(reItalic, s,
        LAMBDA m : <<"*">> \o Inner(s, m) \o <<"*">>)

\* "  \n"
convertLineBreaks(s) == ReplaceAllString(reBr, s, <<" ", " ", "\n">>)

---------------------------------------------------------------------------
(* Convert: entities, code, cleanup                                        *)

Entity(e, c) == [entity |-> e, char |-> c]

s_amp == <<"&","a","m","p",";">>

\* the replacements of decodeHTMLEntities other than &amp;
otherReplacements ==
    << Entity(<<"&","l","t",";">>, <<"<">>),
       Entity(<<"&","g","t",";">>, <<">">>),
       Entity(<<"&","q","u","o","t",";">>, <<"\"">>),
       Entity(<<"&","#","3","9",";">>, <<"'">>),
       Entity(<<"&","a","p","o","s",";">>, <<"'">>),
       Entity(<<"&","n","b","s","p",";">>, <<" ">>) >>

RECURSIVE ReplaceEach(_, _)
ReplaceEach(s, rs) ==
    IF rs = <<>> THEN s
    ELSE ReplaceEach(ReplaceAll(s, Head(rs).entity, Head(rs).char), Tail(rs))

\* decodeHTMLEntities when the iteration over the map takes the entities
\* of late after &amp; and the other ones before it.  The replacements
\* other than &amp; produce no "&" and consume none that another of them
\* needs, so their order among themselves makes no difference.
decodeInOrder(s, late) ==
    ReplaceEach(
        ReplaceAll(
            ReplaceEach(s, SelectSeq(otherReplacements,
                                     LAMBDA r : r \notin late)),
            s_amp, <<"&">>),
        SelectSeq(otherReplacements, LAMBDA r : r \in late))

\* the entities that replacing &amp; can bring into being in s
madeByAmp(s) ==
    {otherReplacements[k] : k \in
        {j \in 1..Len(otherReplacements) :
            Contains(s, s_amp \o Tail(otherReplacements[j].entity))}}

\* decodeHTMLEntities: the iteration order of a map is not specified, so
\* the results of all the orders
decodeHTMLEntities(s) ==
    {decodeInOrder(s, late) : late \in SUBSET madeByAmp(s)}

\* 60 stands for the byte 0x60, the grave accent of a code span or fence
s_tick  == <<"60">>
s_fence == <<"60","60","60">>

codeBlocksOf(s, re) ==
    ReplaceAllStringFuncOutcomes(re, s,
        LAMBDA m :
            {s_nlnl \o s_fence \o s_nl \o d \o s_nl \o s_fence \o s_nlnl :
                d \in decodeHTMLEntities(Inner(s, m))})

\* <pre><code> blocks first, then <pre> blocks
convertCodeBlocks(s) ==
    UNION {codeBlocksOf(t, rePre) : t \in codeBlocksOf(s, rePreCode)}

\* "\x00LT\x00" and "\x00GT\x00"; 00 stands for the NUL byte
s_escLT == <<"00","L","T","00">>
s_escGT == <<"00","G","T","00">>

escapeAngles(s) == ReplaceAll(ReplaceAll(s, <<"<">>, s_escLT), <<">">>, s_escGT)

convertInlineCode(s) ==
    ReplaceAllStringFuncOutcomes(reInlineCode, s,
        LAMBDA m :
            {s_tick \o escapeAngles(d) \o s_tick :
                d \in decodeHTMLEntities(Inner(s, m))})

\* reMultiNewline.ReplaceAllString(s, "\n\n"): a newline goes when the
\* two characters before it are newlines
normalizeNewlines(s) ==
    Keep(s, {i \in 1..Len(s) :
                ~(i > 2 /\ s[i] = "\n" /\ s[i - 1] = "\n" /\ s[i - 2] = "\n")})

\* strings.TrimRight(s, cutset)
TrimRightCut(s, cutset) ==
    LET rest == {i \in 1..Len(s) : s[i] \notin cutset}
    IN  IF rest = {} THEN <<>> ELSE SubSeq(s, 1, MaxOf(rest))

HasSuffix(s, suffix) ==
    Len(s) >= Len(suffix) /\ SubSeq(s, Len(s) - Len(suffix) + 1, Len(s)) = suffix

\* one turn of the loop over the lines of cleanupOutput
trimLine(line) ==
    IF HasSuffix(line, <<" ", " ">>) THEN TrimRightCut(line, {"\t"})
    ELSE TrimRightCut(line, {" ", "\t"})

trimEachLine(lines) == [i \in 1..Len(lines) |-> trimLine(lines[i])]

trimLines(s) == Join(trimEachLine(Split(s, s_nl)), s_nl)

restoreAngles(s) == ReplaceAll(ReplaceAll(s, s_escLT, <<"<">>), s_escGT, <<">">>)

cleanupOutput(s) ==
    {trimLines(normalizeNewlines(d)) :
        d \in decodeHTMLEntities(
                  restoreAngles(ReplaceAllString(reHtmlTag, s, <<>>)))}

---------------------------------------------------------------------------
(* Convert                                                                 *)
(*                                                                         *)
(* Convert works on a string: rawHTML holds its argument, result the       *)
(* value of its variable html after the steps taken so far; doc, body and  *)
(* candidate are not used.  A step whose outcome depends on the iteration  *)
(* order of a map has one successor for every outcome.                     *)

\* html = normalizeWhitespace(html)
NormalizeWhitespace ==
    /\ pc = "start"
    /\ result' = normalizeWhitespace(rawHTML)
    /\ pc' = "headings"
    /\ UNCHANGED <<locals, rawHTML, doc, body, candidate>>

\* html = convertHeadings(html)
ConvertHeadings ==
    /\ pc = "headings"
    /\ result' = convertHeadings(result)
    /\ pc' = "paragraphs"
    /\ UNCHANGED <<locals, rawHTML, doc, body, candidate>>

\* html = convertParagraphs(html)
ConvertParagraphs ==
    /\ pc = "paragraphs"
    /\ result' = convertParagraphs(result)
    /\ pc' = "blockquotes"
    /\ UNCHANGED <<locals, rawHTML, doc, body, candidate>>

\* html = convertBlockquotes(html)
ConvertBlockquotes ==
    /\ pc = "blockquotes"
    /\ result' = convertBlockquotes(result)
    /\ pc' = "codeblocks"
    /\ UNCHANGED <<locals, rawHTML, doc, body, candidate>>

\* html = convertCodeBlocks(html)
ConvertCodeBlocks ==
    /\ pc = "codeblocks"
    /\ result' \in convertCodeBlocks(result)
    /\ pc' = "rules"
    /\ UNCHANGED <<locals, rawHTML, doc, body, candidate>>

\* html = convertHorizontalRules(html)
ConvertHorizontalRules ==
    /\ pc = "rules"
    /\ result' = convertHorizontalRules(result)
    /\ pc' = "lists"
    /\ UNCHANGED <<locals, rawHTML, doc, body, candidate>>

\* html = convertLists(html)
ConvertLists ==
    /\ pc = "lists"
    /\ result' = convertLists(result)
    /\ pc' = "tables"
    /\ UNCHANGED <<locals, rawHTML, doc, body, candidate>>

\* html = convertTables(html)
ConvertTables ==
    /\ pc = "tables"
    /\ result' = convertTables(result)
    /\ pc' = "links"
    /\ UNCHANGED <<locals, rawHTML, doc, body, candidate>>

\* html = convertLinks(html)
ConvertLinks ==
    /\ pc = "links"
    /\ result' = convertLinks(result)
    /\ pc' = "images"
    /\ UNCHANGED <<locals, rawHTML, doc, body, candidate>>

\* html = convertImages(html)
ConvertImages ==
    /\ pc = "images"
    /\ result' = convertImages(result)
    /\ pc' = "bold"
    /\ UNCHANGED <<locals, rawHTML, doc, body, candidate>>

\* html = convertBold(html)
ConvertBold ==
    /\ pc = "bold"
    /\ result' = convertBold(result)
    /\ pc' = "italic"
    /\ UNCHANGED <<locals, rawHTML, doc, body, candidate>>

\* html = convertItalic(html)
ConvertItalic ==
    /\ pc = "italic"
    /\ result' = convertItalic(result)
    /\ pc' = "inlinecode"
    /\ UNCHANGED <<locals, rawHTML, doc, body, candidate>>

\* html = convertInlineCode(html)
ConvertInlineCode ==
    /\ pc = "inlinecode"
    /\ result' \in convertInlineCode(result)
    /\ pc' = "linebreaks"
    /\ UNCHANGED <<locals, rawHTML, doc, body, candidate>>

\* html = convertLineBreaks(html)
ConvertLineBreaks ==
    /\ pc = "linebreaks"
    /\ result' = convertLineBreaks(result)
    /\ pc' = "cleanup"
    /\ UNCHANGED <<locals, rawHTML, doc, body, candidate>>

\* html = cleanupOutput(html)
CleanupOutput ==
    /\ pc = "cleanup"
    /\ result' \in cleanupOutput(result)
    /\ pc' = "trim"
    /\ UNCHANGED <<locals, rawHTML, doc, body, candidate>>

\* return strings.TrimSpace(html)
ReturnTrimmed ==
    /\ pc = "trim"
    /\ result' = TrimSpace(result)
    /\ pc' = "done"
    /\ UNCHANGED <<locals, rawHTML, doc, body, candidate>>

NextConvert ==
    \/ NormalizeWhitespace
    \/ ConvertHeadings
    \/ ConvertParagraphs
    \/ ConvertBlockquotes
    \/ ConvertCodeBlocks
    \/ ConvertHorizontalRules
    \/ ConvertLists
    \/ ConvertTables
    \/ ConvertLinks
    \/ ConvertImages
    \/ ConvertBold
    \/ ConvertItalic
    \/ ConvertInlineCode
    \/ ConvertLineBreaks
    \/ CleanupOutput
    \/ ReturnTrimmed

\* Convert as a whole: the outputs it can give for html
Convert(html) ==
    LET blocks  == convertCodeBlocks(convertBlockquotes(convertParagraphs(
                       convertHeadings(normalizeWhitespace(html)))))
        inlines == {convertItalic(convertBold(convertImages(convertLinks(
                       convertTables(convertLists(
                           convertHorizontalRules(b))))))) : b \in blocks}
        coded   == UNION {convertInlineCode(i) : i \in inlines}
        cleaned == UNION {cleanupOutput(convertLineBreaks(c)) : c \in coded}
    IN  {TrimSpace(c) : c \in cleaned}

\* the strings made of at most n of the pieces
RECURSIVE Texts(_, _)
Texts(n, pieces) ==
    IF n = 0 THEN {<<>>}
    ELSE LET shorter == Texts(n - 1, pieces)
         IN  shorter \cup {t \o p : t \in shorter, p \in pieces}

\* the number of pieces of an input of Convert
MaxPieces == 3

---------------------------------------------------------------------------
(* C17                                                                     *)

s_p_a_p == <<"<","p",">","a","<","/","p",">">>

NewlinePieces ==
    { s_p_a_p, <<" ">>, s_nl, <<"b">>, <<"<","b","r",">">>,
      <<"<","h","2",">","c","<","/","h","2",">">> }

NewlineInputs == Texts(MaxPieces, NewlinePieces)

InitNewline == Start(NewlineInputs)

SpecNewline == InitNewline /\ [][NextConvert]_vars

\* C17: the output of Convert never holds three or more newlines in a
\* row, also after cleanupOutput has trimmed the ends of the lines.
C17_NoThreeNewlines ==
    pc = "done" => ~Contains(result, <<"\n", "\n", "\n">>)

---------------------------------------------------------------------------
(* C18, C19                                                                *)

\* an element as the text before its content and the text after it
InlineCodeWrapper ==
    << <<"<","c","o","d","e",">">>, <<"<","/","c","o","d","e",">">> >>

PreCodeWrapper ==
    << <<"<","p","r","e",">","<","c","o","d","e",">">>,
       <<"<","/","c","o","d","e",">","<","/","p","r","e",">">> >>

PreWrapper ==
    << <<"<","p","r","e",">">>, <<"<","/","p","r","e",">">> >>

CodeWrappers == {InlineCodeWrapper, PreCodeWrapper, PreWrapper}

\* entities, and the pieces of an entity written with &amp;
CodePieces ==
    { <<"&","l","t",";">>, <<"&","g","t",";">>, s_amp,
      <<"a","m","p",";">>, <<"l","t",";">>, <<"d","i","v">> }

CodeInputs ==
    {w[1] \o c \o w[2] : w \in CodeWrappers, c \in Texts(MaxPieces, CodePieces)}

InitCode == Start(CodeInputs)

SpecCode == InitCode /\ [][NextConvert]_vars

HasPrefix(s, prefix) ==
    Len(s) >= Len(prefix) /\ SubSeq(s, 1, Len(prefix)) = prefix

\* s is one element written with the wrapper w
IsWrapped(s, w) ==
    /\ Len(s) >= Len(w[1]) + Len(w[2])
    /\ HasPrefix(s, w[1])
    /\ HasSuffix(s, w[2])

Wrapped(s, w) == SubSeq(s, Len(w[1]) + 1, Len(s) - Len(w[2]))

\* C18: an inline code element comes out as its content with the entities
\* decoded, between two grave accents; the angle brackets that the
\* decoding makes are still there.
C18_InlineCodeDecoded ==
    (pc = "done" /\ IsWrapped(rawHTML, InlineCodeWrapper))
        => result \in {s_tick \o d \o s_tick :
                          d \in decodeHTMLEntities(
                                    Wrapped(rawHTML, InlineCodeWrapper))}

\* the content of a block written with pre and code, or with pre alone
BlockContent(s) ==
    IF IsWrapped(s, PreCodeWrapper) THEN Wrapped(s, PreCodeWrapper)
    ELSE Wrapped(s, PreWrapper)

\* C19: a pre block, with or without code inside, comes out as its
\* content with the entities decoded, between two fences; the characters
\* that the decoding makes, angle brackets too, are there.
C19_CodeBlockDecoded ==
    (pc = "done" /\ IsWrapped(rawHTML, PreWrapper))
        => result \in {s_fence \o s_nl \o d \o s_nl \o s_fence :
                          d \in decodeHTMLEntities(BlockContent(rawHTML))}

---------------------------------------------------------------------------
(* C20                                                                     *)

\* convertTableContent on its own: rawHTML holds its argument, the inner
\* text of a table
ConvertTableContent ==
    /\ pc = "start"
    /\ result' = convertTableContent(rawHTML)
    /\ pc' = "done"
    /\ UNCHANGED <<locals, rawHTML, doc, body, candidate>>

NextTable == ConvertTableContent

\* the cells of a row and the rows of a table
MaxCells == 2
MaxRows == 3

s_close_tr == <<"<","/","t","r",">">>
s_close_td == <<"<","/","t","d",">">>
s_close_th == <<"<","/","t","h",">">>

\* a data cell, a header cell, and a data cell whose text takes two lines
TableCells ==
    { <<"<","t","d",">","a">> \o s_close_td,
      <<"<","t","h",">"," ","b"," ">> \o s_close_th,
      <<"<","t","d",">","c","\n","d">> \o s_close_td }

TableRows ==
    {<<"<","t","r",">">> \o c \o s_close_tr : c \in Texts(MaxCells, TableCells)}

\* rows, with line breaks between them or not
TableInputs == Texts(MaxRows, TableRows \cup {s_nl})

InitTable == Start(TableInputs)

SpecTable == InitTable /\ [][NextTable]_vars

\* the rows as they are written in a table of TableInputs, and the number
\* of cells written in a row
WrittenRows(s) ==
    LET parts == Split(s, s_close_tr)
    IN  SubSeq(parts, 1, Len(parts) - 1)

WrittenCells(row) == Count(row, s_close_td) + Count(row, s_close_th)

\* a line of n cells between pipes
PipeDelimited(line, n) ==
    /\ HasPrefix(line, <<"|", " ">>)
    /\ HasSuffix(line, <<" ", "|">>)
    /\ Count(line, <<" ", "|", " ">>) = n - 1
    /\ ~Contains(line, <<"-","-","-">>)

\* what C20 says of the result for the table in rawHTML
TableAsClaimed ==
    LET emitted == SelectSeq(WrittenRows(rawHTML),
                             LAMBDA r : WrittenCells(r) > 0)
        lines   == Split(result, s_nl)
    IN  IF emitted = <<>> THEN result = <<>>
        ELSE /\ Len(lines) = Len(emitted) + 1
             /\ lines[2] = <<"|">> \o Concat(
                    [k \in 1..WrittenCells(emitted[1]) |->
                        <<" ","-","-","-"," ","|">>])
             /\ \A k \in 1..Len(emitted) :
                    PipeDelimited(lines[IF k = 1 THEN 1 ELSE k + 1],
                                  WrittenCells(emitted[k]))

\* position i of s lies in the text of a cell
InCell(s, i) ==
    LET opens  == {j \in 1..(i - 1) :
                      FoldAt(s, j, <<"<","t","d">>) \/ FoldAt(s, j, <<"<","t","h">>)}
        closes == {j \in 1..(i - 1) :
                      FoldAt(s, j, s_close_td) \/ FoldAt(s, j, s_close_th)}
    IN  opens # {} /\ (closes = {} \/ MaxOf(opens) > MaxOf(closes))

HasMultiLineCell(s) == \E i \in 1..Len(s) : s[i] = "\n" /\ InCell(s, i)

\* C20: convertTableContent gives one pipe-delimited line for every row
\* that has a cell and none for the other rows; there is one separator
\* line, right after the first line, with one --- column for every cell of
\* the first emitted row; without rows the result is the empty string.
C20_OneLinePerRow ==
    pc = "done" => TableAsClaimed

\* C20, for the tables where no cell text holds a line break
C20_OneLinePerRowOfPlainCells ==
    (pc = "done" /\ ~HasMultiLineCell(rawHTML)) => TableAsClaimed

\* a table of three rows is converted: the first has two cells, one has
\* none, no cell text holds a line break, and the result has three lines
C20_Witness ==
    /\ pc = "done"
    /\ ~HasMultiLineCell(rawHTML)
    /\ Len(WrittenRows(rawHTML)) = 3
    /\ WrittenCells(WrittenRows(rawHTML)[1]) = 2
    /\ \E k \in 2..3 : WrittenCells(WrittenRows(rawHTML)[k]) = 0
    /\ Len(Split(result, s_nl)) = 3

---------------------------------------------------------------------------
(* The class and id patterns on the joined string                          *)

s_po == <<"p","o">>
s_st == <<"s","t">>
s_na == <<"n","a">>
s_v  == <<"v">>

\* containers whose class ends and whose id starts a word of a pattern,
\* one that matches both patterns, one that matches the positive one only
\* and one without class and id
PatternLabels ==
    { Label(s_div, <<Attribute(s_class, s_po), Attribute(s_id, s_st)>>, s_t),
      Label(s_div, <<Attribute(s_class, s_na), Attribute(s_id, s_v)>>, s_t),
      Label(s_div, <<Attribute(s_class, s_content),
                     Attribute(s_id, s_sidebar)>>, s_t),
      Label(s_section, <<Attribute(s_class, s_post)>>, s_t),
      Label(s_div, <<>>, s_t) }

PatternInputs ==
    { Wrap(BodyWrapper, MarkTexts(f)) :
        f \in Forests(MaxElements, PatternLabels) }
    \cup { Wrap(NoWrapper, MarkTexts(f)) : f \in Forests(1, PatternLabels) }

InitPattern == Start(PatternInputs)

SpecPattern == InitPattern /\ [][Next]_vars

PositiveWordIn(s) ==
    \E w \in { <<"a","r","t","i","c","l","e">>, <<"b","o","d","y">>,
               <<"c","o","n","t","e","n","t">>, <<"e","n","t","r","y">>,
               <<"m","a","i","n">>, <<"p","a","g","e">>, <<"p","o","s","t">>,
               <<"t","e","x","t">>, <<"b","l","o","g">>,
               <<"s","t","o","r","y">>, <<"h","e","n","t","r","y">> } :
        Contains(ToLower(s), w)

NegativeWordIn(s) ==
    \E w \in { <<"c","o","m","m","e","n","t">>, <<"m","e","t","a">>,
               <<"f","o","o","t","e","r">>, <<"f","o","o","t","n","o","t","e">>,
               <<"s","i","d","e","b","a","r">>, <<"w","i","d","g","e","t">>,
               <<"b","a","n","n","e","r">>, <<"a","d","v","e","r","t","i","s">>,
               <<"a","d","-">>, <<"a","d","_">>, <<"p","o","p","u","p">>,
               <<"s","o","c","i","a","l">>, <<"s","h","a","r","e">>,
               <<"r","e","l","a","t","e","d">>,
               <<"r","e","c","o","m","m","e","n","d">>, <<"n","a","v">>,
               <<"m","e","n","u">>, <<"b","r","e","a","d","c","r","u","m","b">>,
               <<"h","e","a","d","e","r">> } :
        Contains(ToLower(s), w)

ClassOf(node) == getAttr(node, <<"c","l","a","s","s">>)
IdOf(node)    == getAttr(node, <<"i","d">>)

\* a word of the positive, of the negative pattern is in the class value
\* or in the id value of the node
MatchesPositive(node) ==
    PositiveWordIn(ClassOf(node)) \/ PositiveWordIn(IdOf(node))
MatchesNegative(node) ==
    NegativeWordIn(ClassOf(node)) \/ NegativeWordIn(IdOf(node))

\* a word of a pattern is in the class value followed at once by the id
\* value, and neither in the one nor in the other
OnlyByJoining(node) ==
    /\ \/ PositiveWordIn(ClassOf(node) \o IdOf(node))
       \/ NegativeWordIn(ClassOf(node) \o IdOf(node))
    /\ ~MatchesPositive(node) /\ ~MatchesNegative(node)

\* the score of n without the part the patterns give
ScoreWithoutPattern(n) ==
    Scale * (BaseScore(doc[n].Data) + 3 * ParagraphCount(doc, n)
                 + PunctuationCount(doc, n))
        + DensityScore(doc, n)

\* C21: the two patterns are tested one without regard to the other on
\* class, a blank, id: an element gets 25 for a positive word in its class
\* or id and loses 25 for a negative word in its class or id, which is 0
\* for an element with both and for an element with neither, and a word
\* that is only there when the class value is followed at once by the id
\* value gives nothing
C21_PatternsIndependent ==
    \A n \in Elements :
        scoreNode(doc, n) = ScoreWithoutPattern(n)
            + Scale * (IF MatchesPositive(doc[n]) THEN 25 ELSE 0)
            - Scale * (IF MatchesNegative(doc[n]) THEN 25 ELSE 0)

\* the candidates scored are one that matches both patterns, one whose
\* class and id give a word only when joined, and one that has neither
\* class nor id
C21_Witness ==
    /\ pc = "candidate"
    /\ \E n \in Candidates :
          /\ MatchesPositive(doc[n]) /\ MatchesNegative(doc[n])
          /\ scoreNode(doc, n) = ScoreWithoutPattern(n)
    /\ \E n \in Candidates :
          /\ OnlyByJoining(doc[n])
          /\ scoreNode(doc, n) = ScoreWithoutPattern(n)
    /\ \E n \in Candidates : doc[n].Attr = <<>>

---------------------------------------------------------------------------
(* countElements and the paragraph bonus                                   *)

CountedTagNames == { <<"p">>, <<"d","i","v">>, <<"a">>, <<"n","a","v">> }

\* the elements of tag in the set S of nodes
TaggedIn(S, tag) ==
    {m \in S : doc[m].Type = ElementNode /\ doc[m].Data = tag}

\* the score of n without the part the paragraphs give
ScoreWithoutParagraphs(n) ==
    Scale * (BaseScore(doc[n].Data) + PatternScore(doc[n])
                 + PunctuationCount(doc, n))
        + DensityScore(doc, n)

\* C22: countElements(node, tag) is the number of elements of that tag
\* below node, at any depth, node itself not counted; the paragraph bonus
\* in scoreNode(node) is 3 times countElements(node, "p")
C22_CountsDescendants ==
    \A n \in Elements :
        /\ \A tag \in CountedTagNames :
              countElements(doc, n, tag)
                  = Cardinality(TaggedIn(Subtree(doc, n) \ {n}, tag))
        /\ scoreNode(doc, n)
              = ScoreWithoutParagraphs(n)
                    + Scale * 3 * countElements(doc, n, <<"p">>)

\* C22 as amended: countElements(node, tag) is the number of elements of
\* that tag among node and the nodes below it, at any depth, which is the
\* number below node when node has another tag; the paragraph bonus in
\* scoreNode(node) is 3 times countElements(node, "p")
C22_CountsSubtree ==
    \A n \in Elements :
        /\ \A tag \in CountedTagNames :
              /\ countElements(doc, n, tag)
                    = Cardinality(TaggedIn(Subtree(doc, n), tag))
              /\ doc[n].Data # tag =>
                    countElements(doc, n, tag)
                        = Cardinality(TaggedIn(Subtree(doc, n) \ {n}, tag))
        /\ scoreNode(doc, n)
              = ScoreWithoutParagraphs(n)
                    + Scale * 3 * countElements(doc, n, <<"p">>)

\* a div is scored that holds a div that holds a paragraph: it counts one
\* paragraph, two levels below it, and two divs, itself and the inner one
C22_Witness ==
    /\ pc = "candidate"
    /\ \E n \in Candidates :
          /\ doc[n].Data = <<"d","i","v">>
          /\ countElements(doc, n, <<"p">>) = 1
          /\ countElements(doc, n, <<"d","i","v">>) = 2
          /\ \E m \in TaggedIn(Subtree(doc, n), <<"p">>) :
                doc[m].Parent # n /\ m # n
          /\ scoreNode(doc, n) = ScoreWithoutParagraphs(n) + Scale * 3

---------------------------------------------------------------------------
(* Links inside links                                                      *)

\* the most elements an input with links inside links is written from
MaxLinkElements == 4

\* a container, a link with blanks around its text and an object element,
\* inside which the parser lets a link stand in a link
LinkLabels ==
    { Label(s_div, <<>>, s_t),
      Label(s_a, <<>>, <<" ", "#", " ">>),
      Label(s_object, <<>>, <<>>) }

LinkInputs ==
    { Wrap(BodyWrapper, MarkTexts(f)) :
        f \in Forests(MaxLinkElements, LinkLabels) }
    \cup { Wrap(NoWrapper, MarkTexts(f)) : f \in Forests(1, LinkLabels) }

InitLink == Start(LinkInputs)

SpecLink == InitLink /\ [][Next]_vars

\* the links below or at n that are inside another link below or at n
InnerAnchors(t, n) ==
    {m \in Subtree(t, n) : IsAnchor(t, m)} \ OuterAnchors(t, n)

\* C23: getLinkTextLength(node) is the sum of getTextLength over the
\* outermost a elements of the subtree of node: a link inside another link
\* is not visited, its text is counted once, in the text of the outer one
C23_OutermostLinksSummed ==
    \A n \in Elements :
        getLinkTextLength(doc, n) = SumTextLength(doc, OuterAnchors(doc, n))

\* a div is scored that holds a link with a link inside it and a text of
\* its own: the link text length of the div is the text length of the
\* outer link, which holds the text of the inner one
C23_Witness ==
    /\ pc = "candidate"
    /\ \E n \in Candidates :
          /\ InnerAnchors(doc, n) # {}
          /\ \A m \in InnerAnchors(doc, n) : getTextLength(doc, m) > 0
          /\ \E k \in OuterAnchors(doc, n) :
                /\ getLinkTextLength(doc, n) = getTextLength(doc, k)
                /\ \E m \in InnerAnchors(doc, n) :
                      /\ m \in Subtree(doc, k)
                      /\ getTextLength(doc, k) > getTextLength(doc, m)
          /\ getTextLength(doc, n) > getLinkTextLength(doc, n)

---------------------------------------------------------------------------
(* The traversals, node by node                                            *)
(*                                                                         *)
(* removeUnwantedElements and findBestCandidate as the sequence of the     *)
(* calls of their closure walk and of the passes of the loop over          *)
(* toRemove.  walk holds the nodes the calls still to come are for, the    *)
(* next one first: the children of a node are visited before the siblings  *)
(* after it.                                                               *)

\* the test of walk in removeUnwantedElements: the node is collected
removeNode(node) ==
    /\ node.Type = ElementNode
    /\ \/ node.Data \in unwantedTags
       \/ \E i \in 1..Len(node.Attr) : removeAttr(node.Attr[i])

\* the nodes walk goes on to as if a collected node were entered too
removeWalkOn_Entering(t, n) == Children(t, n)

\* the nodes walk of removeUnwantedElements goes on to from n: none after
\* the return at a collected node, the children otherwise
removeWalkOn(t, n) == IF removeNode(t[n]) THEN <<>> ELSE Children(t, n)

\* bestVisit as if a candidate replaced the best one on an equal score
bestVisit_OrEqual(t, n, best) ==
    IF /\ t[n].Type = ElementNode
       /\ t[n].Data \in candidateTags
       /\ scoreNode(t, n) >= best.bestScore
    THEN [bestNode |-> n, bestScore |-> scoreNode(t, n)]
    ELSE best

\* bestNode and bestScore after walk of findBestCandidate has looked at n
bestVisit(t, n, best) ==
    IF /\ t[n].Type = ElementNode
       /\ t[n].Data \in candidateTags
       /\ scoreNode(t, n) > best.bestScore
    THEN [bestNode |-> n, bestScore |-> scoreNode(t, n)]
    ELSE best

\* var toRemove []*html.Node; walk(n)
BeginRemove ==
    /\ pc = "parsed"
    /\ toRemove' = <<>>
    /\ walk' = <<DocumentId>>
    /\ pc' = "collect"
    /\ UNCHANGED <<rawHTML, doc, body, candidate, result,
                   index, bestNode, bestScore>>

\* one call of walk in removeUnwantedElements
WalkRemove ==
    /\ pc = "collect"
    /\ walk # <<>>
    /\ toRemove' = IF removeNode(doc[Head(walk)])
                   THEN Append(toRemove, Head(walk)) ELSE toRemove
    /\ walk' = removeWalkOn(doc, Head(walk)) \o Tail(walk)
    /\ UNCHANGED <<rawHTML, doc, body, candidate, result, pc,
                   index, bestNode, bestScore>>

\* walk(n) has returned: for _, node := range toRemove
RangeToRemove ==
    /\ pc = "collect"
    /\ walk = <<>>
    /\ index' = 1
    /\ pc' = "detach"
    /\ UNCHANGED <<rawHTML, doc, body, candidate, result,
                   toRemove, bestNode, bestScore, walk>>

\* one pass of the loop: if node.Parent != nil, node.Parent.RemoveChild(node)
DetachNode ==
    /\ pc = "detach"
    /\ index <= Len(toRemove)
    /\ doc' = IF doc[toRemove[index]].Parent # Nil
              THEN RemoveChild(doc, toRemove[index]) ELSE doc
    /\ index' = index + 1
    /\ UNCHANGED <<rawHTML, body, candidate, result, pc,
                   toRemove, bestNode, bestScore, walk>>

\* the loop is over, removeUnwantedElements returns
EndRemove ==
    /\ pc = "detach"
    /\ index > Len(toRemove)
    /\ pc' = "removed"
    /\ UNCHANGED <<rawHTML, doc, body, candidate, result, locals>>

\* var bestNode *html.Node; var bestScore float64 = -1000; walk(body)
BeginBest ==
    /\ pc = "body"
    /\ bestNode' = Nil
    /\ bestScore' = Scale * InitialBestScore
    /\ walk' = <<body>>
    /\ pc' = "scoring"
    /\ UNCHANGED <<rawHTML, doc, body, candidate, result, toRemove, index>>

\* one call of walk in findBestCandidate
WalkBest ==
    /\ pc = "scoring"
    /\ walk # <<>>
    /\ bestNode' = bestVisit(doc, Head(walk),
                       [bestNode |-> bestNode, bestScore |-> bestScore]).bestNode
    /\ bestScore' = bestVisit(doc, Head(walk),
                       [bestNode |-> bestNode, bestScore |-> bestScore]).bestScore
    /\ walk' = Children(doc, Head(walk)) \o Tail(walk)
    /\ UNCHANGED <<rawHTML, doc, body, candidate, result, pc, toRemove, index>>

\* walk(body) has returned: if bestNode == nil || bestScore < 0 return body;
\* return bestNode; and in ExtractContent, if candidate == nil return rawHTML
EndBest ==
    /\ pc = "scoring"
    /\ walk = <<>>
    /\ candidate' = IF bestNode = Nil \/ bestScore < 0 THEN body ELSE bestNode
    /\ IF candidate' = Nil
       THEN result' = rawHTML /\ pc' = "done"
       ELSE result' = result /\ pc' = "candidate"
    /\ UNCHANGED <<rawHTML, doc, body, locals>>

NextSteps ==
    \/ SkipExtraction
    \/ ParseHTML
    \/ BeginRemove
    \/ WalkRemove
    \/ RangeToRemove
    \/ DetachNode
    \/ EndRemove
    \/ FindBody
    \/ BeginBest
    \/ WalkBest
    \/ EndBest
    \/ RenderCandidate

\* containers with and without text, one that matches the positive
\* pattern, one that matches the negative one and has no text, a hidden
\* one and a script
StepLabels ==
    { Label(s_div, <<>>, <<>>),
      Label(s_div, <<>>, s_t),
      Label(s_article, <<Attribute(s_class, s_post)>>, s_t),
      Label(s_div, <<Attribute(s_id, s_sidebar)>>, <<>>),
      Label(s_div, <<Attribute(s_hidden, <<>>)>>, s_t),
      Label(s_script, <<>>, s_t) }

\* every forest inside html and body tags, and the smallest ones bare,
\* in a hidden body and in a hidden html element
StepInputs ==
    { Wrap(BodyWrapper, MarkTexts(f)) :
        f \in Forests(MaxElements, StepLabels) }
    \cup { Wrap(w, MarkTexts(f)) :
             w \in {NoWrapper, HiddenBodyWrapper, HiddenHtmlWrapper},
             f \in Forests(1, StepLabels) }

InitSteps == Start(StepInputs)

SpecSteps == InitSteps /\ [][NextSteps]_vars

\* the calls and passes together do what the two functions do
StepsAgree ==
    /\ pc = "removed" =>
          /\ toRemove = removeWalk(Parsed, DocumentId)
          /\ doc = removeUnwantedElements(Parsed, DocumentId)
    /\ pc = "candidate" => candidate = findBestCandidate(doc, body)

\* the nodes the calls of walk still to come will visit
Pending == UNION {Subtree(doc, walk[i]) : i \in 1..Len(walk)}

\* the candidates walk of findBestCandidate has looked at so far
Scored == Candidates \ Pending

\* C24: in every call of walk in findBestCandidate the children of the
\* node are put up for a visit, whether or not the node or a node above it
\* is the best one so far; a candidate becomes the best one exactly when
\* its score is higher than the best score so far, also when it is below
\* the best one so far; so no candidate looked at has a higher score than
\* the best score, and when walk returns all have been looked at
C24_DescendantsScored ==
    [][ pc = "scoring" =>
          /\ \A c \in Scored : scoreNode(doc, c) <= bestScore
          /\ walk = <<>> => Scored = Candidates
          /\ walk # <<>> =>
                /\ \A c \in 1..Len(doc) :
                      doc[c].Parent = Head(walk) =>
                          \E i \in 1..Len(walk') : walk'[i] = c
                /\ Head(walk) \in Candidates =>
                      (bestNode' = Head(walk)
                           <=> scoreNode(doc, Head(walk)) > bestScore)
                /\ bestNode' = Head(walk) =>
                      bestScore' = scoreNode(doc, Head(walk))
                /\ bestNode' # Head(walk) =>
                      bestNode' = bestNode /\ bestScore' = bestScore
      ]_vars

\* the best candidate so far replaced a candidate above it, the only
\* candidate before it, and a candidate below it has been looked at and
\* has not replaced it, its score being the same
C24_Witness ==
    /\ pc = "scoring"
    /\ bestNode # Nil
    /\ \E a \in Candidates :
          /\ a \in Above(doc, doc[bestNode].Parent)
          /\ scoreNode(doc, a) < bestScore
    /\ \A c \in Candidates : c < bestNode => c \in Above(doc, bestNode)
    /\ \E d \in Scored :
          /\ d \in Subtree(doc, bestNode) \ {bestNode}
          /\ scoreNode(doc, d) = bestScore

\* C25: removeUnwantedElements has two phases.  While walk collects, the
\* tree is as it was parsed; a collected node is not entered, so no
\* collected node is below another one and none is collected twice; and in
\* the loop over toRemove every node not yet detached is still a child of
\* the parent it had when it was collected
C25_TwoPhases ==
    /\ pc = "collect" => doc = Parsed
    /\ pc \in {"collect", "detach"} =>
          \A i \in 1..Len(toRemove) : \A j \in 1..Len(toRemove) :
              i # j => toRemove[i] \notin Subtree(Parsed, toRemove[j])
    /\ pc = "detach" =>
          \A i \in index..Len(toRemove) :
              /\ doc[toRemove[i]].Parent # Nil
              /\ doc[toRemove[i]].Parent = Parsed[toRemove[i]].Parent

\* two nodes were collected, one of them with an unwanted element below
\* it; the first has been detached and the second is about to be
C25_Witness ==
    /\ pc = "detach"
    /\ Len(toRemove) = 2
    /\ index = 2
    /\ doc[toRemove[1]].Parent = Nil
    /\ \E i \in 1..2 :
          \E m \in Subtree(Parsed, toRemove[i]) \ {toRemove[i]} :
              removeNode(Parsed[m])

---------------------------------------------------------------------------
(* No body element after preprocessing                                     *)

\* no body element is left in the document
NoBodyLeft ==
    \A n \in InDocument :
        ~(doc[n].Type = ElementNode /\ doc[n].Data = <<"b","o","d","y">>)

\* C26: when no body element is left in the parsed document after
\* preprocessing, the body or the html element above it having been
\* removed as hidden, ExtractContent selects and renders nothing and
\* returns the input as it is
C26_NoBodyReturnsInput ==
    (pc = "done" /\ doc # <<>> /\ NoBodyLeft) =>
        /\ result = rawHTML
        /\ body = Nil
        /\ candidate = Nil

\* the html element was hidden and has been detached with the body and a
\* container below it; the input has been returned
C26_Witness ==
    /\ pc = "done" /\ doc # <<>> /\ NoBodyLeft
    /\ doc[HtmlId].Parent = Nil
    /\ HasHidden(doc[HtmlId])
    /\ doc[BodyId].Parent = HtmlId
    /\ \E n \in 1..Len(doc) :
          doc[n].Parent = BodyId /\ doc[n].Data \in CandidateTagNames
    /\ result = rawHTML

---------------------------------------------------------------------------
(* What findBestCandidate returns when nothing is suitable                 *)

\* no article, main, section or div is below the body, or every one of
\* them has a score below 0
NoSuitableCandidate ==
    \A c \in Candidates : scoreNode(doc, c) < 0

\* C27: findBestCandidate returns nil when no suitable candidate is found,
\* and ExtractContent then returns the input as it is
C27_NilWhenNoCandidate ==
    (pc = "done" /\ body # Nil /\ NoSuitableCandidate) =>
        /\ candidate = Nil
        /\ result = rawHTML

---------------------------------------------------------------------------
(* The first value of bestScore                                            *)

\* the candidate that comes first in document order among those of S
FirstOfCandidates(S) == CHOOSE c \in S : \A d \in S : c <= d

\* C28: every article, main, section and div has a score of -20 or more,
\* which is more than the -1000 bestScore starts with; so the first
\* candidate walk looks at becomes the best one, there is a best one as
\* soon as a candidate has been looked at, and when walk has returned
\* bestNode is nil exactly when there is no candidate below the body
C28_SentinelBelowScores ==
    pc = "scoring" =>
        /\ \A c \in Candidates :
              /\ scoreNode(doc, c) >= Scale * (0 - 20)
              /\ scoreNode(doc, c) > Scale * (0 - 1000)
        /\ bestNode = Nil <=> Scored = {}
        /\ Scored # {} =>
              /\ bestNode \in Scored
              /\ Scored = {FirstOfCandidates(Candidates)} =>
                    bestNode = FirstOfCandidates(Candidates)
        /\ walk = <<>> => (bestNode = Nil <=> Candidates = {})

\* walk has just looked at the first candidate, whose score is -20, and
\* made it the best one; another candidate is still to come
C28_Witness ==
    /\ pc = "scoring"
    /\ Candidates # {}
    /\ Scored = {FirstOfCandidates(Candidates)}
    /\ Candidates # Scored
    /\ bestNode = FirstOfCandidates(Candidates)
    /\ bestScore = Scale * (0 - 20)

---------------------------------------------------------------------------
(* What removeUnwantedElements leaves alone                                *)

\* the node satisfies a removal criterion
MatchesCriterion(node) ==
    /\ node.Type = ElementNode
    /\ \/ node.Data \in UnwantedTagNames
       \/ HasHidden(node)
       \/ HidesByStyle(node)

\* the nodes of the parsed document that satisfy no criterion and are
\* below no node that satisfies one
Unmatched ==
    LET P == Parsed
    IN  {n \in 1..Len(P) : \A k \in Above(P, n) : ~MatchesCriterion(P[k])}

\* C29: a node that satisfies no removal criterion and is below no node
\* that satisfies one is still in the document after
\* removeUnwantedElements, with the parent, the tag or text and the
\* attributes it had, and the children it keeps are in the order they had
C29_OnlyMatchingRemoved ==
    Preprocessed =>
        \A n \in Unmatched :
            /\ n \in InDocument
            /\ doc[n] = Parsed[n]
            /\ Children(doc, n)
                  = SelectSeq(Children(Parsed, n), LAMBDA c : c \in Unmatched)

\* of three elements in the body the second one has been removed; the
\* first one, which has an attribute, and the third one are left in their
\* order
C29_Witness ==
    /\ pc = "removed"
    /\ Len(Children(Parsed, BodyId)) = 3
    /\ Len(Children(doc, BodyId)) = 2
    /\ Children(doc, BodyId)
          = <<Children(Parsed, BodyId)[1], Children(Parsed, BodyId)[3]>>
    /\ doc[Children(doc, BodyId)[1]].Attr # <<>>
    /\ \A i \in 1..2 : Children(doc, BodyId)[i] \in Unmatched

---------------------------------------------------------------------------
(* Two runs of Convert on one input                                        *)

\* entities, and the pieces of an entity written with &amp;, in plain text
EntityPieces ==
    { s_amp, <<"&","l","t",";">>, <<"l","t",";">>, <<"a","m","p",";">>,
      <<"b">> }

EntityInputs == Texts(MaxPieces, EntityPieces)

InitEntity == Start(EntityInputs)

SpecEntity == InitEntity /\ [][NextConvert]_vars

\* C30: Convert is deterministic: what one run returns for an input is
\* what every run returns for it, whatever the order in which
\* decodeHTMLEntities goes through its replacements
C30_Deterministic ==
    pc = "done" => Convert(rawHTML) = {result}

============================================================================
